---- MODULE Spec2Model ----
(***************************************************************************)
(* Workflow scheduling core of brousla-app: the per-owner workflow state   *)
(* store, the background scheduler, the activate / deactivate / cancel /   *)
(* execute request handlers and the pipeline worker's state updates.       *)
(*                                                                         *)
(* Time is counted in minutes; the scheduler's 60 second sleep is one      *)
(* unit.  Request handlers run on the server's thread pool, the scheduler  *)
(* and every pipeline worker on threads of their own, so a handler that    *)
(* reads the state file and later writes it is two steps.                  *)
(***************************************************************************)
EXTENDS Integers, Sequences, FiniteSets, TLC

\* ---------------------------------------------------------------- bounds
MaxTime == 3
MaxRuns == 2
MaxInflight == 1
MaxClips == 3
\* calls of _save_prompt_history, and those among them whose summary or
\* embedding request fails
MaxRecords == 11
MaxOutages == 1
\* entries of a history handed to _get_relevant_prompts, and its limit
MaxEntries == 3
MaxLimit == 2
\* Thread objects WorkflowScheduler.start creates
MaxThreads == 3
\* nodes of a job template
MaxNodes == 2
MaxRows == 3

\* ------------------------------------------------------- program constants
\* time.sleep(self.check_interval): 60 seconds, one unit of time
CheckInterval == 1
\* Python's None in a time or schedule field
None == -1
\* _poll_for_completion: seconds between polls, and its timeout for a video
\* job and for the image job
PollInterval == 2
\* _save_prompt_history keeps this many entries per workflow
HistoryCap == 10
VideoTimeout == 600
\* requests.get(..., timeout=10) of one status request
RequestTimeout == 10
ImageTimeout == 300

Owners == {"u1", "u2"}
WorkflowIds == {"w1"}
Keys == Owners \X WorkflowIds
\* workflow ids that are keys of prompt_history.json
HistoryIds == {"w1", "w2"}
Schedules == {2}
\* os.listdir order of the per-owner state files (fixed; owners are symmetric)
DirOrder == <<"u1", "u2">>
\* order in which get_workflows meets the records: file by file
KeyOrder == [i \in 1..Len(DirOrder) |-> <<DirOrder[i], "w1">>]

VARIABLES
    store,        \* workflow_state_{owner}.json : record per (owner, workflow)
    created,      \* keys that have a record in their owner's state file
    cacheOrder,   \* _workflows_cache : key (owner) insertion order
    cacheWf,      \* _workflows_cache : (owner, workflow) present in the owner's list
    cacheSched,   \* _workflows_cache : 'schedule' of the cached workflow
    now,          \* datetime.utcnow(), minutes
    schedPc,      \* scheduler thread: "sleep" | "check" | "dispatch"
    sleepLeft,    \* minutes left of the scheduler's time.sleep(check_interval)
    tickTime,     \* current_time of the running pass
    tickList,     \* workflows of the pass still to be checked
    tickRead,     \* state returned by get_state for the head workflow
    workers,      \* live pipeline worker threads
    spawned,      \* worker threads started so far, per owner
    pending,      \* requests between their check and their write
    history,      \* prompt_history.json : list of entries per workflow id
    calls,        \* prompt-memory, prompt-generation and file calls in progress
    stateFile,    \* workflow_state_{owner}.json of an owner of two workflows
    running,      \* WorkflowScheduler.running
    loops,        \* the threads start() has created, each at its place in _run
    subscriptions, \* brousla-cloud: rows of the subscriptions table, by id
    reply         \* brousla-cloud: the last request and its HTTP status

vars == <<store, created, cacheOrder, cacheWf, cacheSched, now, schedPc, sleepLeft,
          tickTime, tickList, tickRead, workers, spawned, pending,
          history, calls, stateFile, running, loops, subscriptions, reply>>

schedVars == <<schedPc, sleepLeft, tickTime, tickList, tickRead>>
cacheVars == <<cacheOrder, cacheWf, cacheSched>>
\* the prompt memory, which no handler of the scheduling core touches
lifeVars == <<stateFile, running, loops>>
cloudVars == <<subscriptions, reply>>
sideVars == <<history, calls, lifeVars, cloudVars>>
coreVars == <<store, created, cacheVars, now, schedVars, workers, spawned, pending>>

\* ------------------------------------------------------------ state store
DefaultState ==
    [isActive |-> FALSE, isRunning |-> FALSE, cancelled |-> FALSE,
     lastExecutionTime |-> None, nextExecutionTime |-> None,
     executionCount |-> 0]

\* dict.update: the fields of the patch replace, every other field stays
Merge(rec, updates) ==
    [f \in DOMAIN rec |-> IF f \in DOMAIN updates THEN updates[f] ELSE rec[f]]

\* _get_workflow_state: the record (the default one when absent) ...
GetState(k) == store[k]
\* ... and its side effect, writing the default record when absent
GetCreates(k) == created \cup {k}

\* _update_workflow_state raises KeyError on an absent record, after the
\* nested _get_workflow_state has written the default record
UpdateRaises(k) == k \notin created
UpdateStore(k, updates) ==
    IF k \in created THEN [store EXCEPT ![k] = Merge(store[k], updates)]
    ELSE store

\* ------------------------------------------------------- definition cache
\* _get_workflows_cache / _set_workflows_cache insert the owner's dict key
TouchCache(o) ==
    IF \E i \in 1..Len(cacheOrder) : cacheOrder[i] = o
    THEN cacheOrder ELSE Append(cacheOrder, o)

FileExists(o) == \E k \in created : k[1] = o

\* first element of a sequence of owners that lies in a set, "none" if none
FirstIn(order, S) ==
    LET idx == {i \in 1..Len(order) : order[i] \in S}
    IN  IF idx = {} THEN "none"
        ELSE order[CHOOSE i \in idx : \A j \in idx : i <= j]

CachedOwners(w) == {o \in Owners : <<o, w>> \in cacheWf}
FileOwners == {o \in Owners : FileExists(o)}

\* owner found by the scheduler's get_state / update_state callbacks: the
\* first owner of the cache holding a workflow with this id, else the owner
\* of the first state file
InCache(w) == FirstIn(cacheOrder, CachedOwners(w)) # "none"
SchedOwner(w) ==
    IF InCache(w) THEN FirstIn(cacheOrder, CachedOwners(w))
    ELSE FirstIn(DirOrder, FileOwners)

\* ------------------------------------------------------------------ Init
\* no prompt history file yet, no call in progress
NoHistory ==
    /\ history = [w \in HistoryIds |-> <<>>]
    /\ calls = {}

\* the scheduler object as constructed, and a state file not under study
\* brousla-cloud after startup: no user has registered, no request was made
NoRequest ==
    /\ subscriptions = <<>>
    /\ reply = [request |-> "none", signature |-> "none", id |-> "none", status |-> 0]

Idle ==
    /\ stateFile = [w \in HistoryIds |-> DefaultState]
    /\ running = FALSE
    /\ loops = <<>>

InitCore ==
    /\ store = [k \in Keys |-> DefaultState]
    /\ created = {}
    /\ cacheOrder = <<>>
    /\ cacheWf = {}
    /\ cacheSched = [k \in Keys |-> None]
    /\ now = 0
    /\ schedPc = "sleep"
    /\ sleepLeft = 0
    /\ tickTime = 0
    /\ tickList = <<>>
    /\ tickRead = DefaultState
    /\ workers = {}
    /\ spawned = [o \in Owners |-> 0]
    /\ pending = {}

Init == InitCore /\ NoHistory /\ Idle /\ NoRequest


\* the clock advances by one minute
Advance ==
    /\ now < MaxTime
    /\ now' = now + 1
    /\ sleepLeft' = IF sleepLeft > 0 THEN sleepLeft - 1 ELSE 0
    /\ UNCHANGED <<store, created, cacheVars, schedPc, tickTime, tickList,
                   tickRead, workers, spawned, pending, sideVars>>

\* ------------------------------------------------------- pipeline worker
\* threading.Thread(target=execute).start()
NewWorker(k, sched, src) ==
    [id |-> spawned[k[1]] + 1, k |-> k, sched |-> sched, src |-> src,
     pc |-> "start", t |-> 0, cnt |-> 0]

\* bound on the runs of one owner
CanSpawn(k) == spawned[k[1]] < MaxRuns
Count(k) == [spawned EXCEPT ![k[1]] = @ + 1]

\* the first state update of execute_workflow
StartUpdate == [isRunning |-> TRUE, lastExecutionTime |-> now]
\* mutant: an except clause that leaves the workflow marked as running
FailureUpdateKeepsRunning == [isRunning |-> TRUE]

\* mutant: an except clause that also clears the schedule
FailureUpdateClearsSchedule == [isRunning |-> FALSE, nextExecutionTime |-> None]

\* the state update of an except clause
FailureUpdate == [isRunning |-> FALSE]

\* execute_workflow up to its first state update.  A definition without
\* concept or videoWorkflowFile raises and the run is failed at once; the
\* definitions get_workflows hands to the scheduler always carry both.
WorkerStart(wk, valid) ==
    /\ wk \in workers
    /\ wk.pc = "start"
    /\ wk.src = "tick" => valid
    /\ IF valid
       THEN /\ store' = UpdateStore(wk.k, StartUpdate)
            /\ workers' = (workers \ {wk}) \cup {[wk EXCEPT !.pc = "run"]}
       ELSE /\ store' = UpdateStore(wk.k, FailureUpdate)
            /\ workers' = workers \ {wk}
    /\ UNCHANGED <<created, cacheVars, now, schedVars, spawned, pending, sideVars>>

\* the pipeline has completed: next_execution is computed from utcnow() and
\* the execution count is read from the state store
WorkerRead(wk) ==
    /\ wk \in workers
    /\ wk.pc = "run"
    /\ workers' = (workers \ {wk}) \cup
                     {[wk EXCEPT !.pc = "finish", !.t = now,
                                 !.cnt = GetState(wk.k).executionCount]}
    /\ UNCHANGED <<store, created, cacheVars, now, schedVars, spawned, pending, sideVars>>

\* mutant: the next run is scheduled at the completion time itself
SuccessUpdateNoInterval(wk) ==
    [isRunning |-> FALSE,
     executionCount |-> wk.cnt + 1,
     nextExecutionTime |-> wk.t]

\* the state update after completion, from the values read before it
SuccessUpdate(wk) ==
    [isRunning |-> FALSE,
     executionCount |-> wk.cnt + 1,
     nextExecutionTime |-> wk.t + wk.sched]

WorkerSucceed(wk) ==
    /\ wk \in workers
    /\ wk.pc = "finish"
    /\ store' = UpdateStore(wk.k, SuccessUpdate(wk))
    /\ workers' = workers \ {wk}
    /\ UNCHANGED <<created, cacheVars, now, schedVars, spawned, pending, sideVars>>

\* a step of the pipeline raises: the except clause of the failing function
WorkerFail(wk) ==
    /\ wk \in workers
    /\ wk.pc = "run"
    /\ store' = UpdateStore(wk.k, FailureUpdate)
    /\ workers' = (workers \ {wk}) \cup {[wk EXCEPT !.pc = "unwind"]}
    /\ UNCHANGED <<created, cacheVars, now, schedVars, spawned, pending, sideVars>>

\* the re-raised exception reaches the except clause of execute_workflow,
\* which writes isRunning=False again and returns the failure result
WorkerUnwind(wk) ==
    /\ wk \in workers
    /\ wk.pc = "unwind"
    /\ store' = UpdateStore(wk.k, FailureUpdate)
    /\ workers' = workers \ {wk}
    /\ UNCHANGED <<created, cacheVars, now, schedVars, spawned, pending, sideVars>>

\* ------------------------------------------------------ request handlers
\* POST /workflows/sync
Sync(o, has, sched) ==
    /\ cacheOrder' = TouchCache(o)
    /\ cacheWf' = {k \in cacheWf : k[1] # o}
                    \cup (IF has THEN {k \in Keys : k[1] = o} ELSE {})
    /\ cacheSched' = [k \in Keys |->
                        IF k[1] = o THEN (IF has THEN sched ELSE None)
                        ELSE cacheSched[k]]
    /\ UNCHANGED <<store, created, now, schedVars, workers, spawned, pending, sideVars>>

CanAdmit == Cardinality(pending) < MaxInflight
Request(op, k) == [op |-> op, k |-> k, sched |-> cacheSched[k]]

\* mutant: activate without the isRunning test
ActivateResultNoRunningTest(k, canExecute) ==
    IF ~canExecute THEN "subscription_error"
    ELSE IF k \notin cacheWf THEN "not_found"
    ELSE "started"

\* outcome of POST /workflows/{id}/activate in the current state
ActivateResult(k, canExecute) ==
    IF ~canExecute THEN "subscription_error"
    ELSE IF GetState(k).isRunning THEN "running"
    ELSE IF k \notin cacheWf THEN "not_found"
    ELSE "started"

\* activate, up to the workflow lookup
ActivateCheck(k, canExecute) ==
    /\ CanAdmit
    /\ LET r == ActivateResult(k, canExecute)
       IN  /\ created' = IF r = "subscription_error" THEN created
                         ELSE GetCreates(k)
           /\ cacheOrder' = IF r \in {"not_found", "started"}
                            THEN TouchCache(k[1]) ELSE cacheOrder
           /\ pending' = IF r = "started"
                         THEN pending \cup {Request("activate", k)}
                         ELSE pending
    /\ UNCHANGED <<store, cacheWf, cacheSched, now, schedVars, workers, spawned, sideVars>>

\* mutant: the update of the older server, without isRunning
ActivateUpdateNotRunning == [isActive |-> TRUE, nextExecutionTime |-> None]

ActivateUpdate ==
    [isActive |-> TRUE, isRunning |-> TRUE, nextExecutionTime |-> None]

\* activate: the state update and the start of the worker thread
ActivateWrite(p) ==
    /\ p \in pending
    /\ p.op = "activate"
    /\ CanSpawn(p.k)
    /\ store' = UpdateStore(p.k, ActivateUpdate)
    /\ workers' = workers \cup {NewWorker(p.k, p.sched, "activate")}
    /\ spawned' = Count(p.k)
    /\ pending' = pending \ {p}
    /\ UNCHANGED <<created, cacheVars, now, schedVars, sideVars>>

\* mutant: execute without the isRunning test
ExecuteResultNoRunningTest(k) ==
    IF k \notin cacheWf THEN "not_found" ELSE "started"

\* outcome of POST /workflows/{id}/execute in the current state
ExecuteResult(k) ==
    IF k \notin cacheWf THEN "not_found"
    ELSE IF GetState(k).isRunning THEN "running"
    ELSE "started"

\* execute, up to the isRunning check
ExecuteCheck(k) ==
    /\ CanAdmit
    /\ LET r == ExecuteResult(k)
       IN  /\ cacheOrder' = TouchCache(k[1])
           /\ created' = IF r = "not_found" THEN created ELSE GetCreates(k)
           /\ pending' = IF r = "started"
                         THEN pending \cup {Request("execute", k)}
                         ELSE pending
    /\ UNCHANGED <<store, cacheWf, cacheSched, now, schedVars, workers, spawned, sideVars>>

\* execute: the start of the worker thread (no state update precedes it)
ExecuteSpawn(p) ==
    /\ p \in pending
    /\ p.op = "execute"
    /\ CanSpawn(p.k)
    /\ workers' = workers \cup {NewWorker(p.k, p.sched, "manual")}
    /\ spawned' = Count(p.k)
    /\ pending' = pending \ {p}
    /\ UNCHANGED <<store, created, cacheVars, now, schedVars, sideVars>>

\* outcome of POST /workflows/{id}/cancel in the current state
CancelResult(k) ==
    IF ~GetState(k).isRunning THEN "not_running"
    ELSE IF k \notin cacheWf THEN "not_found"
    ELSE "cancelled"

\* cancel, up to the workflow lookup
CancelCheck(k) ==
    /\ CanAdmit
    /\ LET r == CancelResult(k)
       IN  /\ created' = GetCreates(k)
           /\ cacheOrder' = IF r = "not_running" THEN cacheOrder
                            ELSE TouchCache(k[1])
           /\ pending' = IF r = "cancelled"
                         THEN pending \cup {Request("cancel", k)}
                         ELSE pending
    /\ UNCHANGED <<store, cacheWf, cacheSched, now, schedVars, workers, spawned, sideVars>>

CancelUpdate(p) ==
    [isRunning |-> FALSE, cancelled |-> TRUE,
     nextExecutionTime |-> now + p.sched]

\* cancel: the state update (the interrupt call goes to the render backend)
CancelWrite(p) ==
    /\ p \in pending
    /\ p.op = "cancel"
    /\ store' = UpdateStore(p.k, CancelUpdate(p))
    /\ pending' = pending \ {p}
    /\ UNCHANGED <<created, cacheVars, now, schedVars, workers, spawned, sideVars>>

\* mutant: deactivate also marks the workflow as not running
DeactivateUpdateStopsRun == [isActive |-> FALSE, isRunning |-> FALSE]

DeactivateUpdate == [isActive |-> FALSE]

\* outcome of POST /workflows/{id}/deactivate in the current state
DeactivateResult(k) ==
    IF k \notin cacheWf THEN "not_found"
    ELSE IF UpdateRaises(k) THEN "error"
    ELSE "deactivated"

Deactivate(k) ==
    /\ cacheOrder' = TouchCache(k[1])
    /\ store' = IF DeactivateResult(k) = "deactivated"
                THEN UpdateStore(k, DeactivateUpdate) ELSE store
    /\ created' = IF DeactivateResult(k) = "not_found" THEN created
                  ELSE GetCreates(k)
    /\ UNCHANGED <<cacheWf, cacheSched, now, schedVars, workers, spawned, pending, sideVars>>

\* POST /workflows/deactivate-all
DeactivateAll(o) ==
    /\ store' = [k \in Keys |->
                   IF k[1] = o /\ k \in created /\ store[k].isActive
                   THEN Merge(store[k], DeactivateUpdate) ELSE store[k]]
    /\ UNCHANGED <<created, cacheVars, now, schedVars, workers, spawned, pending, sideVars>>

\* GET /workflows/{id}/status
Status(k) ==
    /\ created' = GetCreates(k)
    /\ UNCHANGED <<store, cacheVars, now, schedVars, workers, spawned, pending, sideVars>>

\* -------------------------------------------------------------- scheduler
\* the filter of get_workflows on a stored record
Listed(st) ==
    /\ st.isActive
    /\ ~st.isRunning
    /\ ~st.cancelled
    /\ st.nextExecutionTime # None

\* get_workflows: the listed records whose definition is found, each with a
\* copy of the cached definition.  No stored workflow file carries the id of
\* a scheduled workflow (stored ids are server-side uuid4 values), so a
\* definition that is not cached is not found.
ListItem(k) == [k |-> k, sched |-> cacheSched[k]]
GetWorkflows ==
    LET S == SelectSeq(KeyOrder,
                 LAMBDA k : k \in created /\ Listed(store[k]) /\ k \in cacheWf)
    IN  [i \in 1..Len(S) |-> ListItem(S[i])]

\* _check_and_execute_workflows: get_workflows and current_time
TickBegin ==
    /\ schedPc = "sleep"
    /\ sleepLeft = 0
    /\ tickList' = GetWorkflows
    /\ IF GetWorkflows = <<>>
       THEN /\ sleepLeft' = CheckInterval
            /\ UNCHANGED <<schedPc, tickTime, sideVars>>
       ELSE /\ schedPc' = "check"
            /\ tickTime' = now
            /\ UNCHANGED sleepLeft
    /\ UNCHANGED <<store, created, cacheVars, now, tickRead, workers, spawned,
                   pending, sideVars>>

\* the pass moves to its next workflow, or ends and the loop sleeps
NextItem ==
    /\ tickList' = Tail(tickList)
    /\ tickRead' = DefaultState
    /\ IF Tail(tickList) = <<>>
       THEN /\ schedPc' = "sleep"
            /\ sleepLeft' = CheckInterval
            /\ tickTime' = 0
       ELSE /\ schedPc' = "check"
            /\ UNCHANGED <<sleepLeft, tickTime, sideVars>>

\* mutant: the skip test without the isActive test
SkipsIgnoringActive(st) == st.isRunning \/ st.cancelled

\* the skip test of the loop body on the state it read
Skips(st) == ~st.isActive \/ st.isRunning \/ st.cancelled

\* should_execute
ShouldExecute(st, current_time) ==
    /\ st.nextExecutionTime # None
    /\ current_time >= st.nextExecutionTime

\* loop body up to should_execute: get_state by workflow id and the tests
TickCheck ==
    /\ schedPc = "check"
    /\ LET w     == Head(tickList).k[2]
           o     == SchedOwner(w)
           found == o # "none"
           st    == IF found THEN GetState(<<o, w>>) ELSE DefaultState
       IN  /\ created' = IF found THEN GetCreates(<<o, w>>) ELSE created
           /\ IF ~Skips(st) /\ ShouldExecute(st, tickTime)
              THEN /\ schedPc' = "dispatch"
                   /\ tickRead' = st
                   /\ UNCHANGED <<tickList, sleepLeft, tickTime, sideVars>>
              ELSE NextItem
    /\ UNCHANGED <<store, cacheVars, now, workers, spawned, pending, sideVars>>

DispatchUpdate == [isRunning |-> TRUE]

\* owner whose record update_state(workflow_id, ...) patches
DispatchTarget(w) == SchedOwner(w)

\* _execute_workflow_async: update_state by workflow id, then the worker
\* thread is started for the owner get_workflows attached to the workflow
TickDispatch ==
    /\ schedPc = "dispatch"
    /\ CanSpawn(Head(tickList).k)
    /\ LET it     == Head(tickList)
           w      == it.k[2]
           o      == DispatchTarget(w)
           found  == o # "none"
           tk     == <<o, w>>
           raises == found /\ InCache(w) /\ UpdateRaises(tk)
       IN  /\ created' = IF found THEN GetCreates(tk) ELSE created
           /\ store' = IF found /\ ~raises
                       THEN [store EXCEPT ![tk] = Merge(store[tk], DispatchUpdate)]
                       ELSE store
           /\ IF raises
              THEN UNCHANGED <<workers, spawned, sideVars>>
              ELSE /\ workers' = workers \cup {NewWorker(it.k, it.sched, "tick")}
                   /\ spawned' = Count(it.k)
    /\ NextItem
    /\ UNCHANGED <<cacheVars, now, pending, sideVars>>

\* ------------------------------------------------------------------- Next
\* requests of the owners in T, the scheduler, the workers and the clock
Requests(T) ==
    \/ \E o \in T, has \in BOOLEAN, sched \in Schedules : Sync(o, has, sched)
    \/ \E k \in T \X WorkflowIds, c \in BOOLEAN : ActivateCheck(k, c)
    \/ \E p \in pending : ActivateWrite(p)
    \/ \E k \in T \X WorkflowIds : ExecuteCheck(k)
    \/ \E p \in pending : ExecuteSpawn(p)
    \/ \E k \in T \X WorkflowIds : CancelCheck(k)
    \/ \E p \in pending : CancelWrite(p)
    \/ \E k \in T \X WorkflowIds : Deactivate(k)
    \/ \E o \in T : DeactivateAll(o)
    \/ \E k \in T \X WorkflowIds : Status(k)

Scheduler ==
    \/ TickBegin
    \/ TickCheck
    \/ TickDispatch

Workers ==
    \/ \E wk \in workers, v \in BOOLEAN : WorkerStart(wk, v)
    \/ \E wk \in workers : WorkerRead(wk)
    \/ \E wk \in workers : WorkerSucceed(wk)
    \/ \E wk \in workers : WorkerFail(wk)
    \/ \E wk \in workers : WorkerUnwind(wk)

\* one owner using the server
Next ==
    \/ Advance
    \/ Requests({"u1"})
    \/ Scheduler
    \/ Workers

Spec == Init /\ [][Next]_vars

\* Every worker thread is scheduled and every blocking call of the pipeline
\* returns or times out, so a live worker eventually takes its next step.
SpecLive == Init /\ [][Next]_vars /\ WF_vars(Workers)

\* two owners whose workflows carry the same id, each syncing and
\* activating its workflow
TenantRequests ==
    \/ \E o \in Owners, sched \in Schedules : Sync(o, TRUE, sched)
    \/ \E k \in Keys : ActivateCheck(k, TRUE)
    \/ \E p \in pending : ActivateWrite(p)

NextTenants ==
    \/ Advance
    \/ TenantRequests
    \/ Scheduler
    \/ Workers

SpecTenants == Init /\ [][NextTenants]_vars

\* ------------------------------------------- the src/server variant
\* The older server has one state file keyed by workflow id and one cached
\* list of definitions; its record and its definition are kept in the slots
\* of ServerKey.  Its workers run the same execute_workflow.
ServerKey == <<"u1", "w1">>

\* POST /workflows/sync
SrvSync(has, sched) ==
    /\ cacheWf' = IF has THEN {ServerKey} ELSE {}
    /\ cacheSched' = [cacheSched EXCEPT ![ServerKey] =
                         IF has THEN sched ELSE None]
    /\ UNCHANGED <<store, created, cacheOrder, now, schedVars, workers,
                   spawned, pending, sideVars>>

\* POST /workflows/{id}/activate, up to the isRunning check
SrvActivateCheck(k) ==
    /\ CanAdmit
    /\ created' = GetCreates(k)
    /\ pending' = IF GetState(k).isRunning THEN pending
                  ELSE pending \cup {Request("srv_activate", k)}
    /\ UNCHANGED <<store, cacheVars, now, schedVars, workers, spawned, sideVars>>

SrvActivateUpdate == [isActive |-> TRUE, nextExecutionTime |-> None]

\* activate: the state update, the lookup of the definition and the start
\* of the worker thread
SrvActivateWrite(p) ==
    /\ p \in pending
    /\ p.op = "srv_activate"
    /\ CanSpawn(p.k)
    /\ store' = UpdateStore(p.k, SrvActivateUpdate)
    /\ IF p.k \in cacheWf
       THEN /\ workers' = workers \cup
                            {NewWorker(p.k, cacheSched[p.k], "activate")}
            /\ spawned' = Count(p.k)
       ELSE UNCHANGED <<workers, spawned, sideVars>>
    /\ pending' = pending \ {p}
    /\ UNCHANGED <<created, cacheVars, now, schedVars, sideVars>>

\* POST /workflows/{id}/deactivate
SrvDeactivate(k) ==
    /\ store' = UpdateStore(k, DeactivateUpdate)
    /\ created' = GetCreates(k)
    /\ UNCHANGED <<cacheVars, now, schedVars, workers, spawned, pending, sideVars>>

\* get_workflows: the cached list
SrvGetWorkflows ==
    LET S == SelectSeq(<<ServerKey>>, LAMBDA k : k \in cacheWf)
    IN  [i \in 1..Len(S) |-> ListItem(S[i])]

\* _check_and_execute_workflows: get_workflows and current_time
SrvTickBegin ==
    /\ schedPc = "sleep"
    /\ sleepLeft = 0
    /\ tickList' = SrvGetWorkflows
    /\ IF SrvGetWorkflows = <<>>
       THEN /\ sleepLeft' = CheckInterval
            /\ UNCHANGED <<schedPc, tickTime, sideVars>>
       ELSE /\ schedPc' = "check"
            /\ tickTime' = now
            /\ UNCHANGED sleepLeft
    /\ UNCHANGED <<store, created, cacheVars, now, tickRead, workers, spawned,
                   pending, sideVars>>

SrvSkips(st) == ~st.isActive \/ st.isRunning

\* should_execute of the older scheduler: an unset time is due at once
SrvShouldExecute(st, current_time) ==
    \/ st.nextExecutionTime = None
    \/ current_time >= st.nextExecutionTime

\* loop body: get_state, the tests and _execute_workflow_async, which starts
\* the worker thread without a state update
SrvTickCheck ==
    /\ schedPc = "check"
    /\ LET it == Head(tickList)
           st == GetState(it.k)
       IN  /\ created' = GetCreates(it.k)
           /\ IF ~SrvSkips(st) /\ SrvShouldExecute(st, tickTime)
              THEN /\ CanSpawn(it.k)
                   /\ workers' = workers \cup {NewWorker(it.k, it.sched, "tick")}
                   /\ spawned' = Count(it.k)
              ELSE UNCHANGED <<workers, spawned, sideVars>>
    /\ NextItem
    /\ UNCHANGED <<store, cacheVars, now, pending, sideVars>>

NextServer ==
    \/ Advance
    \/ \E has \in BOOLEAN, sched \in Schedules : SrvSync(has, sched)
    \/ SrvActivateCheck(ServerKey)
    \/ \E p \in pending : SrvActivateWrite(p)
    \/ SrvDeactivate(ServerKey)
    \/ SrvTickBegin
    \/ SrvTickCheck
    \/ Workers

SpecServer == Init /\ [][NextServer]_vars

\* ------------------------------------------- one execution of the pipeline
\* execute_workflow in detail: one worker thread, the render jobs it submits,
\* the files of its temporary directory and the artifact it writes.  The
\* worker's record carries the locals of the pipeline functions:
\*   mode, n, out    imageWorkflowFile set or not, numberOfClips, output_folder
\*   clip            clip_index of the loop
\*   jobs            render jobs submitted, in order (the index is the prompt
\*                   id); prompt 0 stands for a job submitted without one of
\*                   the generated prompts; status is the backend's
\*   seed            the image job whose artifact was downloaded (0: none)
\*   elapsed         time.time() - start_time of the running poll, seconds
\*   dir, files      temp_dir and the files in it
\*   clipPaths       clip_paths (each path by its clip index)
\*   called, input   whether _concatenate_videos was called, and its list
\*   artifact        the file at final_output_path
\*   err, result     the exception in flight, the returned result
PipeKey == <<"u1", "w1">>
Modes == {"text", "image"}

PipeWorker(mode, n, out, src) ==
    [id |-> 1, k |-> PipeKey, sched |-> 2, src |-> src, pc |-> "start",
     t |-> 0, cnt |-> 0, mode |-> mode, n |-> n, out |-> out, clip |-> 0,
     jobs |-> <<>>, seed |-> 0, elapsed |-> 0, dir |-> "none", files |-> {},
     clipPaths |-> <<>>, called |-> FALSE, input |-> <<>>,
     artifact |-> "none", err |-> "none", result |-> "none"]

\* the record as the dispatching call left it: a tick dispatches a due
\* workflow, activate one whose nextExecutionTime it has cleared
PipeRecord(src, count) ==
    [isActive |-> TRUE, isRunning |-> TRUE, cancelled |-> FALSE,
     lastExecutionTime |-> IF count = 0 THEN None ELSE 0,
     nextExecutionTime |-> IF src = "tick" THEN 0 ELSE None,
     executionCount |-> count]

InitPipeline ==
    /\ \E src \in {"tick", "activate"}, count \in 0..1 :
          store = [k \in Keys |-> IF k = PipeKey THEN PipeRecord(src, count)
                                  ELSE DefaultState]
          /\ \E mode \in Modes, n \in 1..MaxClips, out \in BOOLEAN :
                workers = {PipeWorker(mode, n, out, src)}
    /\ created = {PipeKey}
    /\ cacheOrder = <<"u1">>
    /\ cacheWf = {PipeKey}
    /\ cacheSched = [k \in Keys |-> IF k = PipeKey THEN 2 ELSE None]
    /\ now = 0
    /\ schedPc = "sleep"
    /\ sleepLeft = 0
    /\ tickTime = 0
    /\ tickList = <<>>
    /\ tickRead = DefaultState
    /\ spawned = [o \in Owners |-> IF o = "u1" THEN 1 ELSE 0]
    /\ pending = {}
    /\ NoHistory /\ Idle /\ NoRequest

\* a step of the worker: its record and, possibly, the workflow's record
PipeStep(wk, new, updates) ==
    /\ workers' = (workers \ {wk}) \cup {new}
    /\ store' = IF updates = <<>> THEN store
                ELSE UpdateStore(wk.k, updates[1])
    /\ UNCHANGED <<created, cacheVars, now, schedVars, spawned, pending, sideVars>>

\* mutant: the exception is noted and the pipeline goes on to the video job
RaiseSwallowed(wk, e, level) == [wk EXCEPT !.err = e, !.clip = 1, !.pc = "submit"]

\* raise: the exception propagates to the except clause of the function the
\* worker is in
Raise(wk, e, level) == [wk EXCEPT !.err = e, !.pc = level]

\* execute_workflow up to its first state update
PipeStart(wk) ==
    /\ wk.pc = "start"
    /\ PipeStep(wk, [wk EXCEPT !.pc = "prompts"], <<StartUpdate>>)

\* generate_prompts, and the choice of the pipeline function
PipePrompts(wk, ok) ==
    /\ wk.pc = "prompts"
    /\ PipeStep(wk,
                IF ~ok THEN Raise(wk, "prompts", "except2")
                ELSE IF wk.mode = "image"
                     THEN [wk EXCEPT !.pc = "image_submit"]
                ELSE IF wk.n = 1 THEN [wk EXCEPT !.pc = "submit", !.clip = 1]
                ELSE [wk EXCEPT !.pc = "mkdtemp"],
                <<>>)

\* the prompt a render job is submitted with: the i-th generated prompt, the
\* concept, or none
Prompt(i) == [of |-> "clip", i |-> i]
ConceptPrompt == [of |-> "concept", i |-> 0]
NoPrompt == [of |-> "none", i |-> 0]

\* the form data of a video job: /generate_video is posted the clip's prompt,
\* /generate_image_to_video is posted no prompt
VideoPrompt(wk) == IF wk.mode = "text" THEN Prompt(wk.clip) ELSE NoPrompt

\* a render job: seed is the image job whose downloaded artifact is posted
\* with it (0: none)
Job(kind, prompt, seed) ==
    [kind |-> kind, prompt |-> prompt, seed |-> seed, status |-> "pending"]
Outstanding(wk) ==
    {j \in 1..Len(wk.jobs) : wk.jobs[j].status = "pending"}

\* requests.post of a job: the backend queues it, or the request fails
Submit(wk, job, ok, next) ==
    IF ok THEN [wk EXCEPT !.jobs = Append(@, job), !.elapsed = 0, !.pc = next]
    ELSE Raise(wk, "submit", "except3")

\* mutant: a poll that takes an error status for completion
PollReturnsOnError(status) == status \in {"completed", "error"}
\* mutant: a poll that returns before the job has finished
PollReturnsUnfinished(status) == status \in {"completed", "pending"}

\* _poll_for_completion returns on this status
PollReturns(status) == status = "completed"
\* mutant: a failed status request is taken for a job error
PollRaisesOnFailedRequest(status) == status \in {"error", "request_failed"}
\* _poll_for_completion raises on this status
PollRaises(status) == status = "error"

\* one iteration of _poll_for_completion on the job submitted last; the
\* status is the one the backend reports ("pending" for any other answer and
\* for a failed request)
PollForCompletion(wk, status, timeout, next) ==
    IF wk.elapsed >= timeout THEN Raise(wk, "timeout", "except3")
    ELSE LET seen == [wk EXCEPT !.jobs[Len(wk.jobs)].status = status]
         IN  IF PollReturns(status) THEN [seen EXCEPT !.pc = next]
             ELSE IF PollRaises(status) THEN Raise(seen, "job_error", "except3")
             ELSE [seen EXCEPT !.elapsed = @ + PollInterval]

\* mutant: a clip list that grows at the front
PrependClip(paths, c) == <<c>> \o paths

\* clip_paths.append
AppendClip(paths, c) == Append(paths, c)

\* _download_clip_to_temp, and clip_paths.append on its return: the clip is
\* copied whole, or the result cannot be had, or shutil.copy2 fails after it
\* has created the destination file
DownloadClipToTemp(wk, outcome) ==
    LET file(whole) == [clip |-> wk.clip, job |-> Len(wk.jobs), whole |-> whole]
    IN  CASE outcome = "copied" ->
               [wk EXCEPT !.files = @ \cup {file(TRUE)},
                          !.clipPaths = AppendClip(@, wk.clip),
                          !.clip = IF wk.clip < wk.n THEN @ + 1 ELSE @,
                          !.pc = IF wk.clip < wk.n THEN "submit" ELSE "concat"]
          [] outcome = "partial" ->
               Raise([wk EXCEPT !.files = @ \cup {file(FALSE)}],
                     "download", "except3")
          [] OTHER -> Raise(wk, "download", "except3")

\* the list _concatenate_videos is called with: the files at the paths of
\* clip_paths
ConcatInput(wk) ==
    [i \in 1..Len(wk.clipPaths) |->
        CHOOSE f \in wk.files : f.clip = wk.clipPaths[i]]

\* _cleanup_temp_files: removes the files of clip_paths, then the directory
\* if it is empty
CleanupTempFiles(wk) ==
    LET left == {f \in wk.files :
                    \A i \in 1..Len(wk.clipPaths) : wk.clipPaths[i] # f.clip}
    IN  [wk EXCEPT !.files = left,
                   !.dir = IF wk.dir = "exists" /\ left = {} THEN "removed"
                           ELSE @]

\* tempfile.mkdtemp, first statement of the clip loop's function (after the
\* image in image mode)
PipeMkdtemp(wk) ==
    /\ wk.pc = "mkdtemp"
    /\ PipeStep(wk, [wk EXCEPT !.dir = "exists", !.clip = 1, !.pc = "submit"],
                <<>>)

\* image mode: the image job, prompted with the concept
PipeImageSubmit(wk, ok) ==
    /\ wk.pc = "image_submit"
    /\ PipeStep(wk, Submit(wk, Job("image", ConceptPrompt, 0), ok, "image_poll"),
                <<>>)

PipeImagePoll(wk, status) ==
    /\ wk.pc = "image_poll"
    /\ PipeStep(wk, PollForCompletion(wk, status, ImageTimeout, "image_fetch"),
                <<>>)

\* the image's result is fetched and the image downloaded, or either fails
PipeImageFetch(wk, ok) ==
    /\ wk.pc = "image_fetch"
    /\ PipeStep(wk,
                IF ~ok THEN Raise(wk, "download", "except3")
                ELSE IF wk.n = 1
                     THEN [wk EXCEPT !.seed = Len(wk.jobs), !.clip = 1,
                                     !.pc = "submit"]
                ELSE [wk EXCEPT !.seed = Len(wk.jobs), !.pc = "mkdtemp"],
                <<>>)

\* mutant: a video job seeded with the artifact of the job before it
ImageFileOfLastJob(wk) == Len(wk.jobs)

\* the image_file of a video job's form data: image_data_bytes, the
\* downloaded artifact of the image job (none in text mode)
ImageFile(wk) == wk.seed

\* the video job of the current clip
PipeSubmit(wk, ok) ==
    /\ wk.pc = "submit"
    /\ PipeStep(wk,
                Submit(wk, Job("video", VideoPrompt(wk), ImageFile(wk)), ok, "poll"),
                <<>>)

PipePoll(wk, status) ==
    /\ wk.pc = "poll"
    /\ PipeStep(wk,
                PollForCompletion(wk, status, VideoTimeout,
                                  IF wk.n = 1 THEN "copy" ELSE "download"),
                <<>>)

PipeDownload(wk, outcome) ==
    /\ wk.pc = "download"
    /\ PipeStep(wk, DownloadClipToTemp(wk, outcome), <<>>)

\* single clip: _copy_video_to_output_folder, which never raises
PipeCopy(wk, ok) ==
    /\ wk.pc = "copy"
    /\ wk.out \/ ok
    /\ PipeStep(wk,
                [wk EXCEPT !.artifact = IF wk.out /\ ok THEN "written" ELSE @,
                           !.pc = "read"],
                <<>>)

\* after the loop: with an output folder, os.makedirs and
\* _concatenate_videos(clip_paths, final_output_path); ffmpeg writes the
\* artifact, or fails with or without leaving a file
PipeConcat(wk, outcome) ==
    /\ wk.pc = "concat"
    /\ wk.out \/ outcome = "written"
    /\ PipeStep(wk,
                IF ~wk.out THEN [wk EXCEPT !.pc = "cleanup"]
                ELSE IF outcome = "no_folder" THEN Raise(wk, "concat", "except3")
                ELSE LET call == [wk EXCEPT !.called = TRUE,
                                            !.input = ConcatInput(wk)]
                     IN  CASE outcome = "written" ->
                                [call EXCEPT !.artifact = "written",
                                             !.pc = "cleanup"]
                           [] outcome = "partial" ->
                                Raise([call EXCEPT !.artifact = "partial"],
                                      "concat", "except3")
                           [] OTHER -> Raise(call, "concat", "except3"),
                <<>>)

PipeCleanup(wk) ==
    /\ wk.pc = "cleanup"
    /\ PipeStep(wk, [CleanupTempFiles(wk) EXCEPT !.pc = "read"], <<>>)

\* the success path reads the count, then writes its final update
PipeRead(wk) ==
    /\ wk.pc = "read"
    /\ PipeStep(wk,
                [wk EXCEPT !.pc = "finish", !.t = now,
                           !.cnt = GetState(wk.k).executionCount],
                <<>>)

PipeSucceed(wk) ==
    /\ wk.pc = "finish"
    /\ PipeStep(wk, [wk EXCEPT !.result = "success", !.pc = "done"],
                <<SuccessUpdate(wk)>>)

\* the except clause of the clip function: the multi-clip one cleans up first
PipeExceptClip(wk) ==
    /\ wk.pc = "except3"
    /\ PipeStep(wk,
                [(IF wk.n > 1 THEN CleanupTempFiles(wk) ELSE wk)
                    EXCEPT !.pc = "except2"],
                <<FailureUpdate>>)

\* the except clause of _execute_text_to_video_workflow or
\* _execute_image_to_video_workflow
PipeExceptMode(wk) ==
    /\ wk.pc = "except2"
    /\ PipeStep(wk, [wk EXCEPT !.pc = "except1"], <<FailureUpdate>>)

\* the except clause of execute_workflow, which returns the failure
PipeExcept(wk) ==
    /\ wk.pc = "except1"
    /\ PipeStep(wk, [wk EXCEPT !.result = "failure", !.pc = "done"],
                <<FailureUpdate>>)

Statuses == {"pending", "completed", "error"}

NextPipeline ==
    \E wk \in workers :
        \/ PipeStart(wk)
        \/ \E ok \in BOOLEAN : PipePrompts(wk, ok)
        \/ PipeMkdtemp(wk)
        \/ \E ok \in BOOLEAN : PipeImageSubmit(wk, ok)
        \/ \E status \in Statuses : PipeImagePoll(wk, status)
        \/ \E ok \in BOOLEAN : PipeImageFetch(wk, ok)
        \/ \E ok \in BOOLEAN : PipeSubmit(wk, ok)
        \/ \E status \in Statuses : PipePoll(wk, status)
        \/ \E outcome \in {"copied", "partial", "failed"} : PipeDownload(wk, outcome)
        \/ \E ok \in BOOLEAN : PipeCopy(wk, ok)
        \/ \E outcome \in {"written", "partial", "failed", "no_folder"} :
              PipeConcat(wk, outcome)
        \/ PipeCleanup(wk)
        \/ PipeRead(wk)
        \/ PipeSucceed(wk)
        \/ PipeExceptClip(wk)
        \/ PipeExceptMode(wk)
        \/ PipeExcept(wk)

SpecPipeline == InitPipeline /\ [][NextPipeline]_vars

\* ------------------------------------------------------ prompt generation
\* generate_prompts end to end: the api-server route parses the model's
\* answer into a list (raw), corrects its length and answers; the agent of
\* the server that runs the pipeline validates the answer.  variant tells
\* the two agents apart: src/server falls back to the concept repeated,
\* src/workflow-server raises.
Texts == {"a", "b", ""}
Concept == "c"
Variants == {"server", "workflow-server"}

RECURSIVE Pad(_, _, _)
\* while len(prompts) < n: prompts.append(prompts[-1] if prompts else concept)
Pad(prompts, n, concept) ==
    IF Len(prompts) >= n THEN prompts
    ELSE Pad(Append(prompts, IF prompts # <<>> THEN prompts[Len(prompts)]
                             ELSE concept),
             n, concept)

\* mutant: a correction that only truncates
FixCountTruncating(prompts, n, concept) ==
    IF Len(prompts) > n THEN SubSeq(prompts, 1, n) ELSE prompts

\* the route's correction of the parsed list
FixCount(prompts, n, concept) ==
    IF Len(prompts) = n THEN prompts
    ELSE IF Len(prompts) > n THEN SubSeq(prompts, 1, n)
    ELSE Pad(prompts, n, concept)

\* [concept.strip()] * numberOfClips
Fallback(n, concept) == [i \in 1..n |-> concept]

\* the agent accepts the answered list
Accepts(variant, prompts, n) ==
    /\ prompts # <<>>
    /\ Len(prompts) = n
    /\ variant = "workflow-server" => \A i \in 1..Len(prompts) : prompts[i] # ""

PromptCall(variant, n, raw) ==
    [op |-> "generate_prompts", variant |-> variant, n |-> n, raw |-> raw,
     pc |-> "route", status |-> 0, answer |-> <<>>, prompts |-> <<>>,
     err |-> FALSE]

InitPrompts ==
    /\ InitCore /\ Idle /\ NoRequest
    /\ history = [w \in HistoryIds |-> <<>>]
    /\ \E variant \in Variants, n \in 1..MaxClips :
          \E len \in 0..(MaxClips + 1) : \E raw \in [1..len -> Texts] :
              calls = {PromptCall(variant, n, raw)}

CallStep(c, new) ==
    /\ calls' = (calls \ {c}) \cup {new}
    /\ UNCHANGED <<coreVars, history, lifeVars, cloudVars>>

\* POST /api/generate-prompts: the route answers 200 with the corrected list,
\* or 500 when the model call raised
RouteAnswers(c, ok) ==
    /\ c.op = "generate_prompts" /\ c.pc = "route"
    /\ CallStep(c,
                IF ok THEN [c EXCEPT !.pc = "agent", !.status = 200,
                                     !.answer = FixCount(c.raw, c.n, Concept)]
                ELSE [c EXCEPT !.pc = "agent", !.status = 500])

\* generate_prompts of the agent on the answer
AgentReturns(c) ==
    /\ c.op = "generate_prompts" /\ c.pc = "agent"
    /\ CallStep(c,
                IF c.status = 200 /\ Accepts(c.variant, c.answer, c.n)
                THEN [c EXCEPT !.pc = "done", !.prompts = c.answer]
                ELSE IF c.variant = "server"
                THEN [c EXCEPT !.pc = "done", !.prompts = Fallback(c.n, Concept)]
                ELSE [c EXCEPT !.pc = "done", !.err = TRUE])

NextPrompts ==
    \E c \in calls :
        \/ \E ok \in BOOLEAN : RouteAnswers(c, ok)
        \/ AgentReturns(c)

SpecPrompts == InitPrompts /\ [][NextPrompts]_vars

\* ---------------------------------------------------------- prompt memory
\* An entry of the history is a dict whose "summary" and "embedding" keys
\* may be absent; an embedding is a vector of two numbers.
BareEntry(ts, concept, prompts) ==
    [timestamp |-> ts, concept |-> concept, prompts |-> prompts]
WithSummary(entry, summary) == entry @@ [summary |-> summary]
WithEmbedding(entry, embedding) == entry @@ [embedding |-> embedding]
Has(entry, key) == key \in DOMAIN entry

\* the entry _save_prompt_history builds: summarised tells whether
\* _generate_prompt_summary returned a summary, embedded whether
\* _generate_embedding, called only with a summary, returned a vector
NewEntry(ts, concept, prompts, summarised, embedded) ==
    LET e0 == BareEntry(ts, concept, prompts)
        e1 == IF summarised THEN WithSummary(e0, "s") ELSE e0
    IN  IF summarised /\ embedded THEN WithEmbedding(e1, <<1, 0>>) ELSE e1

\* mutant: an entry is only recorded with its summary
InsertSummarised(list, entry) ==
    IF Has(entry, "summary") THEN <<entry>> \o list ELSE list

\* history[workflow_id].insert(0, entry)
Insert(list, entry) == <<entry>> \o list

\* mutant: a cap that drops the newest entries
KeepOldest(list) ==
    IF Len(list) > HistoryCap
    THEN SubSeq(list, Len(list) - HistoryCap + 1, Len(list)) ELSE list

\* history[workflow_id][:10] when the list has more than 10 entries
KeepNewest(list) ==
    IF Len(list) > HistoryCap THEN SubSeq(list, 1, HistoryCap) ELSE list

\* entries of the file whose summary or embedding request had failed
Outages ==
    Cardinality({<<w, i>> \in HistoryIds \X (1..HistoryCap) :
                    i <= Len(history[w]) /\ ~Has(history[w][i], "embedding")})

\* _save_prompt_history(workflow_id, prompts, concept), called at time now
SavePromptHistory(w, summarised, embedded) ==
    /\ now < MaxRecords
    /\ (summarised /\ embedded) \/ Outages < MaxOutages
    /\ embedded => summarised
    /\ history' = [history EXCEPT ![w] =
                      KeepNewest(Insert(@, NewEntry(now, Concept, <<"a", "b">>,
                                                    summarised, embedded)))]
    /\ now' = now + 1
    /\ UNCHANGED <<store, created, cacheVars, schedVars, workers, spawned,
                   pending, calls, lifeVars, cloudVars>>

NextHistory ==
    \E w \in HistoryIds, summarised \in BOOLEAN, embedded \in BOOLEAN :
        SavePromptHistory(w, summarised, embedded)

SpecHistory == Init /\ [][NextHistory]_vars

\* -------------------------------------------------------------- retrieval
\* _get_relevant_prompts on a stored history.  Embeddings are vectors of two
\* integers on the axes, whose magnitudes and cosines are integers.
Vectors == {<<1, 0>>, <<2, 0>>, <<0, 1>>, <<-1, 0>>}
\* _generate_embedding returned None
NoVector == <<>>

Dot(v1, v2) == v1[1] * v2[1] + v1[2] * v2[2]
\* math.sqrt(sum(a * a for a in vec))
Magnitude(v) == CHOOSE r \in 0..4 : r * r = Dot(v, v)
CosineSimilarity(v1, v2) ==
    IF Magnitude(v1) = 0 \/ Magnitude(v2) = 0 THEN 0
    ELSE Dot(v1, v2) \div (Magnitude(v1) * Magnitude(v2))

\* the kinds of entry _save_prompt_history writes
EntryKinds == {<<"bare">>, <<"summary">>} \cup {<<"embedded", v>> : v \in Vectors}
\* the entry of a kind recorded at time ts, with two prompts of its own
StoredEntry(kind, ts) ==
    LET e0 == BareEntry(ts, Concept, <<2 * ts, 2 * ts + 1>>)
    IN  IF kind[1] = "bare" THEN e0
        ELSE IF kind[1] = "summary" THEN WithSummary(e0, ts)
        ELSE WithEmbedding(WithSummary(e0, ts), kind[2])
\* a history, newest first, of entries of the given kinds
StoredHistory(kinds) ==
    [i \in 1..Len(kinds) |-> StoredEntry(kinds[i], Len(kinds) - i)]

RECURSIVE FlatPrompts(_)
\* all_prompts.extend(entry["prompts"]) over the entries
FlatPrompts(entries) ==
    IF entries = <<>> THEN <<>>
    ELSE entries[1].prompts \o FlatPrompts(Tail(entries))

RECURSIVE Summaries(_)
\* summaries.append(entry["summary"]) over the entries that have one
Summaries(entries) ==
    IF entries = <<>> THEN <<>>
    ELSE (IF Has(entries[1], "summary") THEN <<entries[1].summary>> ELSE <<>>)
         \o Summaries(Tail(entries))

\* seq[:limit]
Take(seq, limit) == SubSeq(seq, 1, IF Len(seq) < limit THEN Len(seq) ELSE limit)

\* mutant: the fallback looks only at entries that carry an embedding
RecentEmbedded(list, limit) ==
    Take(SelectSeq(list, LAMBDA e : Has(e, "embedding")), limit)

\* history[:limit], the fallback when the concept has no embedding
Recent(list, limit) == Take(list, limit)

\* the (similarity, entry) pairs: an entry without embedding is paired with 0
Scored(list, query) ==
    [i \in 1..Len(list) |->
        [similarity |-> IF Has(list[i], "embedding")
                        THEN CosineSimilarity(query, list[i].embedding) ELSE 0,
         entry |-> list[i]]]

RECURSIVE SortDescending(_)
\* list.sort(key=similarity, reverse=True): stable, equal keys keep their order
SortDescending(pairs) ==
    IF pairs = <<>> THEN <<>>
    ELSE LET top == CHOOSE i \in 1..Len(pairs) :
                      /\ \A j \in 1..Len(pairs) :
                            pairs[j].similarity <= pairs[i].similarity
                      /\ \A j \in 1..(i - 1) :
                            pairs[j].similarity < pairs[i].similarity
             rest == [j \in 1..(Len(pairs) - 1) |->
                        IF j < top THEN pairs[j] ELSE pairs[j + 1]]
         IN  <<pairs[top]>> \o SortDescending(rest)

\* the entries _get_relevant_prompts takes its result from
Selected(list, query, limit) ==
    IF query = NoVector THEN Recent(list, limit)
    ELSE LET sorted == SortDescending(Scored(list, query))
         IN  Take([i \in 1..Len(sorted) |-> sorted[i].entry], limit)

RetrieveCall(w, query, limit) ==
    [op |-> "retrieve", w |-> w, query |-> query, limit |-> limit,
     pc |-> "call", prompts |-> <<>>, summaries |-> <<>>]

InitRetrieve ==
    /\ InitCore /\ Idle /\ NoRequest
    /\ \E len \in 0..MaxEntries : \E kinds \in [1..len -> EntryKinds] :
          history = [w \in HistoryIds |->
                        IF w = "w1" THEN StoredHistory(kinds) ELSE <<>>]
    /\ \E query \in Vectors \cup {NoVector}, limit \in 1..MaxLimit :
          calls = {RetrieveCall("w1", query, limit)}

\* _get_relevant_prompts(workflow_id, concept, limit) returns
GetRelevantPrompts(c) ==
    /\ c.op = "retrieve" /\ c.pc = "call"
    /\ LET chosen == Selected(history[c.w], c.query, c.limit)
       IN  calls' = (calls \ {c}) \cup
                      {[c EXCEPT !.pc = "done",
                                 !.prompts = FlatPrompts(chosen),
                                 !.summaries = Summaries(chosen)]}
    /\ UNCHANGED <<coreVars, history, lifeVars, cloudVars>>

NextRetrieve == \E c \in calls : GetRelevantPrompts(c)

SpecRetrieve == InitRetrieve /\ [][NextRetrieve]_vars

\* ------------------------------------------------------ state store calls
\* _get_workflow_state and _update_workflow_state called directly, with the
\* patches the handlers and the executor pass; calls holds the last call
\* and what it returned.
Patches ==
    {[isActive |-> TRUE], [isActive |-> FALSE], [isRunning |-> TRUE],
     [isRunning |-> FALSE, nextExecutionTime |-> 2],
     [isRunning |-> FALSE, executionCount |-> 1]}
KeyError == [raised |-> "KeyError"]

StoreCall(op, k, patch, returned) ==
    [op |-> op, k |-> k, patch |-> patch, returned |-> returned]

\* _get_workflow_state(user_id, workflow_id)
GetWorkflowState(k) ==
    /\ created' = GetCreates(k)
    /\ calls' = {StoreCall("get", k, << >>, GetState(k))}
    /\ UNCHANGED <<store, cacheVars, now, schedVars, workers, spawned,
                   pending, history, lifeVars, cloudVars>>

\* _update_workflow_state(user_id, workflow_id, updates)
UpdateWorkflowState(k, updates) ==
    /\ store' = UpdateStore(k, updates)
    /\ created' = GetCreates(k)
    /\ calls' = {StoreCall("update", k, updates,
                           IF UpdateRaises(k) THEN KeyError ELSE store'[k])}
    /\ UNCHANGED <<cacheVars, now, schedVars, workers, spawned, pending,
                   history, lifeVars, cloudVars>>

NextStore ==
    \/ \E k \in Keys : GetWorkflowState(k)
    \/ \E k \in Keys, updates \in Patches : UpdateWorkflowState(k, updates)

SpecStore == Init /\ [][NextStore]_vars

\* ------------------------------------------------- files under concurrency
\* _update_workflow_state and _save_prompt_history each read their whole
\* JSON file, change one key of the dict they read and write the whole dict
\* back.  They run on worker and request threads without a lock, so another
\* call's read and write may fall between one call's read and its write.
\* Each workflow has at most one call of a kind; both records of the state
\* file exist.
FilePatches ==
    {[isActive |-> TRUE], [isRunning |-> TRUE],
     [isRunning |-> FALSE, executionCount |-> 1]}

FileCall(op, w, patch) ==
    [op |-> op, w |-> w, patch |-> patch, pc |-> "read", snapshot |-> << >>]

CallOf(op, w) == {c \in calls : c.op = op /\ c.w = w}

FileStep(c, new) == calls' = (calls \ {c}) \cup {new}

\* a thread enters _update_workflow_state(user_id, w, updates)
PatchBegin(w, updates) ==
    /\ CallOf("patch", w) = {}
    /\ calls' = calls \cup {FileCall("patch", w, updates)}
    /\ UNCHANGED <<coreVars, history, lifeVars, cloudVars>>

\* state = _read_json(state_path, {})
PatchRead(c) ==
    /\ c.op = "patch" /\ c.pc = "read"
    /\ FileStep(c, [c EXCEPT !.pc = "write", !.snapshot = stateFile])
    /\ UNCHANGED <<coreVars, history, lifeVars, cloudVars>>

\* state[workflow_id].update(updates), on the dict that was read
Patched(c) == [c.snapshot EXCEPT ![c.w] = Merge(@, c.patch)]

\* _write_json(state_path, state)
PatchWrite(c) ==
    /\ c.op = "patch" /\ c.pc = "write"
    /\ stateFile' = Patched(c)
    /\ FileStep(c, [c EXCEPT !.pc = "done"])
    /\ UNCHANGED <<coreVars, history, running, loops, cloudVars>>

\* a thread enters _save_prompt_history(w, prompts, concept); the prompts
\* of a run are named after its workflow
SaveBegin(w) ==
    /\ CallOf("save", w) = {}
    /\ calls' = calls \cup {FileCall("save", w, <<w>>)}
    /\ UNCHANGED <<coreVars, history, lifeVars, cloudVars>>

\* history = _read_json(PROMPT_HISTORY_PATH, {})
SaveRead(c) ==
    /\ c.op = "save" /\ c.pc = "read"
    /\ FileStep(c, [c EXCEPT !.pc = "write", !.snapshot = history])
    /\ UNCHANGED <<coreVars, history, lifeVars, cloudVars>>

\* the summary and embedding requests, the insert, the cap and
\* _write_json(PROMPT_HISTORY_PATH, history)
SaveWrite(c, summarised, embedded) ==
    /\ c.op = "save" /\ c.pc = "write"
    /\ embedded => summarised
    /\ history' = [c.snapshot EXCEPT ![c.w] =
                      KeepNewest(Insert(@, NewEntry(now, Concept, c.patch,
                                                    summarised, embedded)))]
    /\ FileStep(c, [c EXCEPT !.pc = "done"])
    /\ UNCHANGED <<coreVars, lifeVars, cloudVars>>

NextFiles ==
    \/ \E w \in HistoryIds, updates \in FilePatches : PatchBegin(w, updates)
    \/ \E c \in calls : PatchRead(c)
    \/ \E c \in calls : PatchWrite(c)
    \/ \E w \in HistoryIds : SaveBegin(w)
    \/ \E c \in calls : SaveRead(c)
    \/ \E c \in calls, summarised \in BOOLEAN, embedded \in BOOLEAN :
          SaveWrite(c, summarised, embedded)

SpecFiles == Init /\ [][NextFiles]_vars

\* ------------------------------------------------------ scheduler lifecycle
\* WorkflowScheduler.start and stop, and the threads running _run.  A thread
\* is at the test of `while self.running`, in a pass, in its sleep of
\* check_interval, or has returned from _run; self.thread is the last one
\* created.
LoopThreads == 1..Len(loops)
Alive == {t \in LoopThreads : loops[t] # "exited"}
Scanning == {t \in LoopThreads : loops[t] = "pass"}

LifeStep ==
    UNCHANGED <<coreVars, history, calls, stateFile, cloudVars>>

\* scheduler.start()
Start ==
    /\ Len(loops) < MaxThreads
    /\ IF running THEN UNCHANGED <<running, loops>>
       ELSE /\ running' = TRUE
            /\ loops' = Append(loops, "test")
    /\ LifeStep

\* self.thread.join(timeout=5): the thread has returned from _run by then
\* when it was at the test, or when less than 5 of its 60 seconds of sleep
\* were left (wakes); otherwise the join times out
Joined(pc, wakes) ==
    IF pc = "test" \/ (pc = "sleep" /\ wakes) THEN "exited" ELSE pc

\* scheduler.stop()
Stop(wakes) ==
    /\ running' = FALSE
    /\ loops' = IF loops = << >> THEN loops
                ELSE [loops EXCEPT ![Len(loops)] = Joined(@, wakes)]
    /\ LifeStep

\* while self.running:
LoopTest(t) ==
    /\ loops[t] = "test"
    /\ loops' = [loops EXCEPT ![t] = IF running THEN "pass" ELSE "exited"]
    /\ UNCHANGED running
    /\ LifeStep

\* self._check_and_execute_workflows() returns or raises; time.sleep begins
LoopPass(t) ==
    /\ loops[t] = "pass"
    /\ loops' = [loops EXCEPT ![t] = "sleep"]
    /\ UNCHANGED running
    /\ LifeStep

\* time.sleep(self.check_interval) returns
LoopWake(t) ==
    /\ loops[t] = "sleep"
    /\ loops' = [loops EXCEPT ![t] = "test"]
    /\ UNCHANGED running
    /\ LifeStep

NextLife ==
    \/ Start
    \/ \E wakes \in BOOLEAN : Stop(wakes)
    \/ \E t \in LoopThreads : LoopTest(t)
    \/ \E t \in LoopThreads : LoopPass(t)
    \/ \E t \in LoopThreads : LoopWake(t)

SpecLife == Init /\ [][NextLife]_vars

\* ------------------------------------------------------------ polling loop
\* _poll_for_completion(prompt_id, comfyui_url, timeout) on its own, with
\* every answer a status request can have: a status of the job, a request
\* that raised (status endpoint unreachable or timed out), or a reply without
\* success (not 200, or success false).
Answers ==
    {"completed", "error", "pending", "running", "not_found",
     "request_failed", "no_success"}

PollCall(timeout) ==
    [op |-> "poll", timeout |-> timeout, elapsed |-> 0, pc |-> "loop",
     last |-> "none", failed |-> FALSE]

InitPoll ==
    /\ InitCore /\ Idle /\ NoRequest
    /\ history = [w \in HistoryIds |-> <<>>]
    /\ \E timeout \in {ImageTimeout, VideoTimeout} :
          calls = {PollCall(timeout)}

\* one iteration of the while loop: the test of the elapsed time, the status
\* request, which took `took` seconds, and time.sleep(poll_interval)
PollIteration(c, answer, took) ==
    IF c.elapsed >= c.timeout THEN [c EXCEPT !.pc = "timeout"]
    ELSE LET seen == [c EXCEPT !.last = answer,
                               !.failed = @ \/ answer = "request_failed"]
         IN  IF PollReturns(answer) THEN [seen EXCEPT !.pc = "returned"]
             ELSE IF PollRaises(answer) THEN [seen EXCEPT !.pc = "raised"]
             ELSE [seen EXCEPT !.elapsed = @ + took + PollInterval]

Poll(c, answer, took) ==
    /\ c.op = "poll" /\ c.pc = "loop"
    /\ calls' = (calls \ {c}) \cup {PollIteration(c, answer, took)}
    /\ UNCHANGED <<coreVars, history, lifeVars, cloudVars>>

NextPoll ==
    \E c \in calls, answer \in Answers, took \in {0, RequestTimeout} :
        Poll(c, answer, took)

SpecPoll == InitPoll /\ [][NextPoll]_vars
\* the thread in the loop keeps running
SpecPollLive == SpecPoll /\ WF_vars(NextPoll)

\* --------------------------------------------------------- template filling
\* _queue_comfyui_workflow: modify_workflow_prompt, modify_workflow_settings
\* and the choice of what is handed to queue_prompt.  A template is a JSON
\* dict: the node graph itself ("root"), or a dict that holds the graph
\* under its 'workflow' or 'prompt' key.  The graph is given as the nodes in
\* the order of the dict; a node is a dict with a class_type and, mostly, an
\* inputs dict.  Template values are 0; the values filled in differ from it.
Formats == {"root", "workflow", "prompt"}
ClipClasses == {"CLIPTextEncode", "CLIPTextEncodeSDXL"}
SamplerClasses == {"KSampler", "KSamplerAdvanced"}
FrameParams ==
    <<"frames", "max_frames", "num_frames", "length", "frame_count",
      "total_frames">>
NodeKinds ==
    {[class_type |-> "CLIPTextEncode", inputs |-> [text |-> 0]],
     [class_type |-> "CLIPTextEncodeSDXL", inputs |-> [clip |-> 0]],
     [class_type |-> "KSampler", inputs |-> [steps |-> 0, cfg |-> 0, seed |-> 0]],
     [class_type |-> "EmptyLatentImage", inputs |-> [width |-> 0, height |-> 0]],
     [class_type |-> "VideoCombine", inputs |-> [fps |-> 0, frames |-> 0, length |-> 0]],
     [class_type |-> "RandomNoise", inputs |-> [seed |-> 0, steps |-> 0]],
     [class_type |-> "Note"]}
SettingNames ==
    {"negative_prompt", "width", "height", "steps", "cfg_scale", "fps",
     "length", "seed"}
\* the arguments of a call: the settings in given are passed with a value,
\* the others as None
SettingsOf(given) == [name \in SettingNames |-> IF name \in given THEN 9 ELSE None]
PositivePrompt == 1
NegativePrompt == 2

HasInputs(node) == "inputs" \in DOMAIN node
HasInput(node, key) == HasInputs(node) /\ key \in DOMAIN node.inputs

\* nodes_to_update of modify_workflow_prompt, as positions in the graph
ClipNodes(graph) ==
    {i \in 1..Len(graph) : graph[i].class_type \in ClipClasses}
Nth(S, n) ==
    CHOOSE i \in S : Cardinality({j \in S : j < i}) = n - 1

SetInput(node, key, value) ==
    IF HasInput(node, key) THEN [node EXCEPT !.inputs[key] = value] ELSE node

\* modify_workflow_prompt on the graph of the copy
ModifyWorkflowPrompt(graph, positive, negative) ==
    LET clips == ClipNodes(graph)
        g1 == IF clips # {}
              THEN [graph EXCEPT ![Nth(clips, 1)] = SetInput(@, "text", positive)]
              ELSE graph
    IN  IF negative # None /\ Cardinality(clips) > 1
        THEN [g1 EXCEPT ![Nth(clips, 2)] = SetInput(@, "text", negative)]
        ELSE g1

\* the first of the frame parameters that the inputs have
FrameParam(inputs) ==
    LET present == {n \in 1..Len(FrameParams) : FrameParams[n] \in DOMAIN inputs}
    IN  IF present = {} THEN "none" ELSE FrameParams[Nth(present, 1)]

\* the value modify_workflow_settings leaves in inputs[key] of a node
NewInput(node, key, s) ==
    LET sampler == node.class_type \in SamplerClasses
    IN  IF key = "width" /\ s.width # None THEN s.width
        ELSE IF key = "height" /\ s.height # None THEN s.height
        ELSE IF key = "steps" /\ sampler /\ s.steps # None THEN s.steps
        ELSE IF key = "cfg" /\ sampler /\ s.cfg_scale # None THEN s.cfg_scale
        ELSE IF key = "seed" /\ s.seed # None THEN s.seed
        ELSE IF key = "fps" /\ s.fps # None THEN s.fps
        ELSE IF key = FrameParam(node.inputs) /\ s.length # None THEN s.length
        ELSE node.inputs[key]

\* modify_workflow_settings on the graph of the copy
ModifyWorkflowSettings(graph, s) ==
    [i \in 1..Len(graph) |->
        IF HasInputs(graph[i])
        THEN [graph[i] EXCEPT
                !.inputs = [key \in DOMAIN graph[i].inputs |->
                               NewInput(graph[i], key, s)]]
        ELSE graph[i]]

\* what is handed to queue_prompt: the value of the 'workflow' or 'prompt'
\* key when the modified template has one, else the modified template
WorkflowToQueue(template) == [format |-> "root", graph |-> template.graph]

\* mutant: the functions write into the caller's dict
CallerTemplateAliased(template, modified) == modified

\* the caller's dict after the call: both functions work on
\* json.loads(json.dumps(workflow)) and write only into that copy
CallerTemplate(template, modified) == template

FillCall(template, given) ==
    [op |-> "fill", given |-> template, template |-> template,
     settings |-> SettingsOf(given), pc |-> "call",
     job |-> WorkflowToQueue(template)]

InitFill ==
    /\ InitCore /\ Idle /\ NoRequest
    /\ history = [w \in HistoryIds |-> <<>>]
    /\ \E format \in Formats, len \in 0..MaxNodes, given \in SUBSET SettingNames :
          \E graph \in [1..len -> NodeKinds] :
              calls = {FillCall([format |-> format, graph |-> graph], given)}

\* _queue_comfyui_workflow up to its call of queue_prompt
QueueComfyuiWorkflow(c) ==
    /\ c.op = "fill" /\ c.pc = "call"
    /\ LET g1 == ModifyWorkflowPrompt(c.template.graph, PositivePrompt,
                                      IF c.settings.negative_prompt # None
                                      THEN NegativePrompt ELSE None)
           g2 == ModifyWorkflowSettings(g1, c.settings)
           modified == [c.template EXCEPT !.graph = g2]
       IN  calls' = (calls \ {c}) \cup
                      {[c EXCEPT !.pc = "done",
                                 !.template = CallerTemplate(c.template, modified),
                                 !.job = WorkflowToQueue(modified)]}
    /\ UNCHANGED <<coreVars, history, lifeVars, cloudVars>>

NextFill == \E c \in calls : QueueComfyuiWorkflow(c)

SpecFill == InitFill /\ [][NextFill]_vars

\* ------------------------------------------------------ submit and offline
\* _queue_comfyui_workflow from its call of queue_prompt on.  A failure is
\* known to the except clause only as an exception: its type name and its
\* message.  A message is given by the fragments of its lower-cased text that
\* matter; they are those of the requests library for a backend URL of the
\* scheme, on the platform.
Schemes == {"http", "https"}
Platforms == {"posix", "windows"}
Unreachable == {"refused", "dns", "connect_timeout", "read_timeout"}
Rejections == {"status_400", "status_404", "status_500", "status_503"}
Outcomes ==
    Unreachable \cup Rejections \cup {"bad_reply", "no_prompt_id", "queued"}

ConnectionPatterns ==
    {"connection refused", "failed to establish a new connection",
     "max retries exceeded", "target machine actively refused",
     "actively refused", "httpconnectionpool", "newconnectionerror",
     "connectionerror", "connection aborted", "name or service not known",
     "nodename nor servname provided"}

\* pattern in error_str, for a text made of the fragments
Within(pattern, fragment) ==
    \/ pattern = fragment
    \/ pattern = "connectionerror" /\ fragment = "newconnectionerror"
    \/ pattern = "actively refused" /\ fragment = "target machine actively refused"
Contains(text, pattern) == \E fragment \in text : Within(pattern, fragment)

Pool(scheme) ==
    IF scheme = "http" THEN "httpconnectionpool" ELSE "httpsconnectionpool"

\* the exception of requests.post / raise_for_status / response.json()
RequestException(outcome, scheme, platform) ==
    IF outcome = "refused"
    THEN [type |-> "ConnectionError",
          text |-> {Pool(scheme), "max retries exceeded", "newconnectionerror",
                    "failed to establish a new connection",
                    IF platform = "posix" THEN "connection refused"
                    ELSE "target machine actively refused"}]
    ELSE IF outcome = "dns"
    THEN [type |-> "ConnectionError",
          text |-> {Pool(scheme), "max retries exceeded",
                    IF platform = "posix" THEN "name or service not known"
                    ELSE "getaddrinfo failed"}]
    ELSE IF outcome = "connect_timeout"
    THEN [type |-> "ConnectTimeout",
          text |-> {Pool(scheme), "max retries exceeded", "connecttimeouterror",
                    "timed out"}]
    ELSE IF outcome = "read_timeout"
    THEN [type |-> "ReadTimeout", text |-> {Pool(scheme), "read timed out"}]
    ELSE IF outcome \in Rejections
    THEN [type |-> "HTTPError", text |-> {"error for url"}]
    ELSE [type |-> "JSONDecodeError", text |-> {"expecting value"}]

\* queue_prompt: raise Exception(f"Failed to queue ComfyUI prompt: {e}")
Reraised(e) ==
    [type |-> "Exception", text |-> e.text \cup {"failed to queue comfyui prompt"}]

\* queue_result["prompt_id"] on a reply without the key
KeyErrorPromptId == [type |-> "KeyError", text |-> {"prompt_id"}]
NoException == [type |-> "none", text |-> {}]

\* _is_comfyui_connection_error(exception)
IsComfyuiConnectionError(e) ==
    \/ \E pattern \in ConnectionPatterns : Contains(e.text, pattern)
    \/ e.type \in {"ConnectionError", "ConnectionRefusedError", "ConnectTimeout"}

SubmitCall(outcome, scheme, platform) ==
    [op |-> "submit", outcome |-> outcome, scheme |-> scheme,
     platform |-> platform, pc |-> "call", exception |-> NoException,
     success |-> FALSE, prompt_id |-> None, isComfyUIOffline |-> FALSE]

InitSubmit ==
    /\ InitCore /\ Idle /\ NoRequest
    /\ history = [w \in HistoryIds |-> <<>>]
    /\ \E outcome \in Outcomes, scheme \in Schemes, platform \in Platforms :
          calls = {SubmitCall(outcome, scheme, platform)}

\* client.queue_prompt(workflow_to_queue) and queue_result["prompt_id"]
QueuePrompt(c) ==
    /\ c.op = "submit" /\ c.pc = "call"
    /\ calls' = (calls \ {c}) \cup
         {[c EXCEPT !.pc = "queued",
                    !.exception =
                        IF c.outcome = "queued" THEN NoException
                        ELSE IF c.outcome = "no_prompt_id" THEN KeyErrorPromptId
                        ELSE Reraised(RequestException(c.outcome, c.scheme,
                                                       c.platform))]}
    /\ UNCHANGED <<coreVars, history, lifeVars, cloudVars>>

\* the result dict: of the try block, or of its except clause
SubmitReturns(c) ==
    /\ c.op = "submit" /\ c.pc = "queued"
    /\ calls' = (calls \ {c}) \cup
         {IF c.exception = NoException
          THEN [c EXCEPT !.pc = "done", !.success = TRUE, !.prompt_id = 1,
                         !.isComfyUIOffline = FALSE]
          ELSE [c EXCEPT !.pc = "done", !.success = FALSE,
                         !.isComfyUIOffline = IsComfyuiConnectionError(c.exception)]}
    /\ UNCHANGED <<coreVars, history, lifeVars, cloudVars>>

NextSubmit ==
    \/ \E c \in calls : QueuePrompt(c)
    \/ \E c \in calls : SubmitReturns(c)

SpecSubmit == InitSubmit /\ [][NextSubmit]_vars

\* ------------------------------------------------- brousla-cloud billing
\* The subscriptions table behind /auth/register and /stripe/webhook.  A row
\* is never deleted; a user is registered once it has a row, and a
\* registered user's Stripe customer id is its user id.
Users == {1, 2}
StripeIds == {"sub_1", "sub_2"}
Prices == {"price_pro", "price_team", "price_other"}
Signatures == {"valid", "invalid_signature", "invalid_payload"}
EventTypes ==
    {"checkout.session.completed", "customer.subscription.created",
     "customer.subscription.updated", "customer.subscription.deleted"}
SubscriptionStatuses == {"active", "past_due", "canceled"}

\* startup_event: the seeded plans
Plans ==
    {[name |-> "FREE", stripe_price_id |-> "none"],
     [name |-> "PRO", stripe_price_id |-> "price_pro"],
     [name |-> "TEAM", stripe_price_id |-> "price_team"]}

PlanNamed(name) == {p \in Plans : p.name = name}
PlanPriced(price) == {p \in Plans : p.stripe_price_id = price}

Subscription(user_id, plan, stripe_subscription_id, status) ==
    [user_id |-> user_id, plan |-> plan,
     stripe_subscription_id |-> stripe_subscription_id, status |-> status]

\* db.query(Subscription).filter(stripe_subscription_id == id).first(): the
\* id of the row, 0 for None
FirstSubscription(rows, id) ==
    LET hits == {i \in DOMAIN rows : rows[i].stripe_subscription_id = id}
    IN  IF hits = {} THEN 0 ELSE CHOOSE i \in hits : \A j \in hits : i <= j

Registered(rows, u) == \E i \in DOMAIN rows : rows[i].user_id = u

\* "Revert to free plan"
RevertToFree(rows, user_id) ==
    IF PlanNamed("FREE") = {} THEN rows
    ELSE Append(rows, Subscription(user_id, "FREE", "none", "active"))

\* mutant: the cancellation without the new subscription
HandleSubscriptionDeletedOnly(rows, data) ==
    LET i == FirstSubscription(rows, data.id)
    IN  IF i = 0 THEN rows ELSE [rows EXCEPT ![i].status = "canceled"]

HandleSubscriptionDeleted(rows, data) ==
    LET i == FirstSubscription(rows, data.id)
    IN  IF i = 0 THEN rows
        ELSE RevertToFree([rows EXCEPT ![i].status = "canceled"], rows[i].user_id)

HandleSubscriptionUpdated(rows, data) ==
    LET i == FirstSubscription(rows, data.id)
    IN  IF i = 0 THEN rows ELSE [rows EXCEPT ![i].status = data.status]

\* the new row; the table as it was when the user or the plan is not found
HandleSubscriptionCreated(rows, data) ==
    IF ~Registered(rows, data.customer) \/ PlanPriced(data.price) = {} THEN rows
    ELSE Append(rows, Subscription(data.customer,
                                   (CHOOSE p \in PlanPriced(data.price) : TRUE).name,
                                   data.id, data.status))

\* stripe_subscription_id is unique: the commit of a second row with the id
\* raises, and the request ends with status 500
Conflict(rows, type, data) ==
    /\ type = "customer.subscription.created"
    /\ HandleSubscriptionCreated(rows, data) # rows
    /\ FirstSubscription(rows, data.id) # 0

EventData ==
    [id : StripeIds, customer : Users \cup {0}, price : Prices,
     status : SubscriptionStatuses]

\* the events that differ in a field the handler of the type reads; an
\* event that does not verify is never read
EventsOf(signature, type) ==
    {data \in EventData :
        /\ (signature # "valid" \/ type = "checkout.session.completed") =>
               data.id = "sub_1"
        /\ (signature # "valid" \/ type \notin {"checkout.session.completed",
                                                "customer.subscription.created"}) =>
               data.customer = 0
        /\ (signature # "valid" \/ type # "customer.subscription.created") =>
               data.price = "price_other"
        /\ (signature # "valid" \/ type \notin {"customer.subscription.created",
                                                "customer.subscription.updated"}) =>
               data.status = "canceled"}

\* the request and the status code of its response
Answered(request, signature, id, status) ==
    [request |-> request, signature |-> signature, id |-> id, status |-> status]

\* POST /auth/register
Register(u) ==
    /\ IF Registered(subscriptions, u)
       THEN /\ reply' = Answered("register", "none", "none", 400)
            /\ UNCHANGED subscriptions
       ELSE /\ reply' = Answered("register", "none", "none", 201)
            /\ subscriptions' = RevertToFree(subscriptions, u)
    /\ Len(subscriptions') <= MaxRows
    /\ UNCHANGED <<coreVars, history, calls, lifeVars>>

\* POST /stripe/webhook
StripeWebhook(signature, type, data) ==
    /\ IF signature # "valid"
       THEN /\ reply' = Answered("unverified", signature, "none", 400)
            /\ UNCHANGED subscriptions
       ELSE IF Conflict(subscriptions, type, data)
       THEN /\ reply' = Answered(type, signature, data.id, 500)
            /\ UNCHANGED subscriptions
       ELSE /\ reply' = Answered(type, signature, data.id, 200)
            /\ subscriptions' =
                 IF type = "customer.subscription.created"
                 THEN HandleSubscriptionCreated(subscriptions, data)
                 ELSE IF type = "customer.subscription.updated"
                 THEN HandleSubscriptionUpdated(subscriptions, data)
                 ELSE IF type = "customer.subscription.deleted"
                 THEN HandleSubscriptionDeleted(subscriptions, data)
                 ELSE subscriptions
    /\ Len(subscriptions') <= MaxRows
    /\ UNCHANGED <<coreVars, history, calls, lifeVars>>

NextCloud ==
    \/ \E u \in Users : Register(u)
    \/ \E signature \in Signatures, type \in EventTypes :
          \E data \in EventsOf(signature, type) :
              StripeWebhook(signature, type, data)

SpecCloud == Init /\ [][NextCloud]_vars

TypeOK ==
    /\ created \subseteq Keys
    /\ now \in 0..MaxTime
    /\ \A o \in Owners : spawned[o] \in 0..MaxRuns
    /\ schedPc \in {"sleep", "check", "dispatch"}
    /\ \A k \in Keys : k \notin created => store[k] = DefaultState

\* ================================================================ claims
LiveWorkers(k) == {wk \in workers : wk.k = k}
RunningWorkers(k) == {wk \in workers : wk.k = k /\ wk.pc # "start"}
\* the worker thread a step starts
Started == {wk \in workers' : wk.pc = "start"} \ workers

\* C1: at most one pipeline worker is executing for a given (ownerId,
\* workflowId) at any time: no two worker threads are past the first state
\* update of execute_workflow for the same workflow.
C1_AtMostOneWorker ==
    \A k \in Keys : Cardinality(RunningWorkers(k)) <= 1

\* C2: in every state in which no dispatching call is between its check and
\* its start of a worker, a workflow whose stored isRunning is true has
\* exactly one live pipeline worker.
NoHandoff == pending = {} /\ schedPc # "dispatch"
C2_RunningHasOneWorker ==
    NoHandoff =>
        \A k \in created :
            store[k].isRunning => Cardinality(LiveWorkers(k)) = 1

\* C3: a scheduler tick starts a worker only when the state it read in that
\* tick for the workflow has isActive=true, isRunning=false and
\* cancelled=false, and every record get_workflows lists passes the same
\* test when the tick reads it.
ReadAllows(st) == st.isActive /\ ~st.isRunning /\ ~st.cancelled
C3_TickSkips ==
    [][ /\ (\E wk \in Started : wk.src = "tick") => ReadAllows(tickRead)
        /\ TickBegin =>
              \A i \in 1..Len(tickList') : ReadAllows(store[tickList'[i].k])
      ]_vars

\* C3 witness: the tick has started a worker for a workflow it read as
\* active, not running and not cancelled.
C3_Witness ==
    \E wk \in workers : wk.src = "tick" /\ wk.pc = "start"

\* C4: when a scheduler tick starts a worker for a workflow, isRunning=true
\* has been written to the record of that same (ownerId, workflowId) by the
\* time the worker thread is started.
C4_RunningWrittenBeforeStart ==
    [][ \A wk \in Started : wk.src = "tick" => store'[wk.k].isRunning ]_vars

\* C5: a scheduler tick decides to dispatch a workflow only if the
\* workflow's nextExecutionTime is set and the tick's current time is at or
\* after it.
C5_DispatchOnlyWhenDue ==
    [][ (schedPc = "check" /\ schedPc' = "dispatch") =>
            LET k == Head(tickList).k
            IN  /\ store[k].nextExecutionTime # None
                /\ tickTime >= store[k].nextExecutionTime ]_vars

\* C6: an activation and a scheduler tick never both have a worker running
\* for the same workflow (no double-fire of the first run).
C6_NoDoubleFire ==
    \A a \in workers, t \in workers :
        ~(a.k = t.k /\ a.src = "activate" /\ t.src = "tick")

\* C7: a run that completes successfully at time T (the time the worker
\* reads when its pipeline has completed) with interval I leaves
\* nextExecutionTime >= T + I, and no step of a failing run changes
\* nextExecutionTime.
C7_ForwardOnly ==
    [][ \A wk \in workers :
          /\ WorkerSucceed(wk) =>
                store'[wk.k].nextExecutionTime >= wk.t + wk.sched
          /\ (WorkerFail(wk) \/ WorkerUnwind(wk) \/ WorkerStart(wk, FALSE)) =>
                store'[wk.k].nextExecutionTime = store[wk.k].nextExecutionTime
      ]_vars

\* C7 witness: one run of the workflow has completed successfully and a
\* later run of it is failing.
C7_Witness ==
    \E wk \in workers :
        /\ wk.pc = "unwind"
        /\ store[wk.k].executionCount >= 1
        /\ store[wk.k].nextExecutionTime # None

\* C8: when a run started by the scheduler ends, successfully or by failing,
\* on a workflow that was never cancelled and has no other worker, and
\* nextExecutionTime is set, nextExecutionTime is at least lastExecutionTime
\* plus the interval: the workflow is not due again sooner than the interval
\* after the start of the run that just ended.
C8_NextAfterInterval ==
    [][ \A wk \in workers :
          ( /\ wk.src = "tick"
            /\ LiveWorkers(wk.k) = {wk}
            /\ (WorkerSucceed(wk) \/ WorkerUnwind(wk))
            /\ ~store'[wk.k].cancelled
            /\ store'[wk.k].nextExecutionTime # None )
          => store'[wk.k].nextExecutionTime
                 >= store'[wk.k].lastExecutionTime + wk.sched
      ]_vars

\* C9: activate on a known workflow that is not running is admitted, and its
\* write sets isActive=true, isRunning=true and nextExecutionTime=null in one
\* update that leaves the other fields alone, and starts exactly one worker,
\* for that workflow.
C9_ActivateStartsOne ==
    [][ /\ \A k \in Keys :
              (ActivateCheck(k, TRUE) /\ k \in cacheWf /\ ~store[k].isRunning)
              => Request("activate", k) \in pending'
        /\ \A p \in pending :
              ActivateWrite(p) =>
                /\ store'[p.k] = [store[p.k] EXCEPT !.isActive = TRUE,
                                                    !.isRunning = TRUE,
                                                    !.nextExecutionTime = None]
                /\ \A k \in Keys \ {p.k} : store'[k] = store[k]
                /\ Cardinality(Started) = 1
                /\ \A wk \in Started : wk.k = p.k
                /\ workers \subseteq workers'
      ]_vars

\* C9 witness: activate has written its update and started its worker.
C9_Witness ==
    \E wk \in workers :
        /\ wk.src = "activate"
        /\ wk.pc = "start"
        /\ store[wk.k].isActive
        /\ store[wk.k].isRunning
        /\ store[wk.k].nextExecutionTime = None

\* C10: activate on a workflow whose isRunning is true is refused, starts no
\* worker, admits no request and leaves the state store unchanged.
C10_ActivateRunningNoOp ==
    [][ \A k \in Keys, c \in BOOLEAN :
          (store[k].isRunning /\ ActivateCheck(k, c)) =>
              /\ ActivateResult(k, c) # "started"
              /\ UNCHANGED <<store, workers, spawned, pending, sideVars>>
      ]_vars

\* C10 witness: a worker started by activate is live and its workflow is
\* stored as running, the state in which a second activate is refused.
C10_Witness ==
    \E wk \in workers :
        /\ wk.src = "activate"
        /\ wk.pc = "run"
        /\ store[wk.k].isRunning
        /\ ActivateResult(wk.k, TRUE) = "running"
        /\ ENABLED ActivateCheck(wk.k, TRUE)

\* C11: deactivate changes only isActive (to false) in the record it names
\* and nothing in any other record, deactivate-all changes nothing but
\* isActive (to false) in the owner's records, and neither removes or changes
\* a worker thread.
C11_DeactivateFrame ==
    [][ /\ \A k \in Keys :
              Deactivate(k) =>
                /\ workers' = workers
                /\ \A j \in Keys :
                      store'[j] =
                        IF j = k /\ DeactivateResult(k) = "deactivated"
                        THEN [store[j] EXCEPT !.isActive = FALSE]
                        ELSE store[j]
        /\ \A o \in Owners :
              DeactivateAll(o) =>
                /\ workers' = workers
                /\ \A j \in Keys :
                      /\ store'[j] \in {store[j],
                                        [store[j] EXCEPT !.isActive = FALSE]}
                      /\ j[1] = o => ~store'[j].isActive
      ]_vars

\* C11 witness: a worker started by activate has completed its pipeline and
\* is about to record its success on a workflow that was deactivated during
\* the run and is still stored as running.
C11_Witness ==
    \E wk \in workers :
        /\ wk.src = "activate"
        /\ wk.pc = "finish"
        /\ ~store[wk.k].isActive
        /\ store[wk.k].isRunning

\* C12: the write of cancel sets cancelled=true, isRunning=false and
\* nextExecutionTime to the cancel time plus the interval; afterwards
\* isRunning of the cancelled workflow becomes true again only by a new
\* activation or a manual run, and no tick starts a worker for it before
\* that nextExecutionTime.
C12_CancelStops ==
    [][ /\ \A p \in pending :
              CancelWrite(p) =>
                store'[p.k] = [store[p.k] EXCEPT !.cancelled = TRUE,
                                                 !.isRunning = FALSE,
                                                 !.nextExecutionTime = now + p.sched]
        /\ \A k \in Keys :
              (store[k].cancelled /\ ~store[k].isRunning /\ store'[k].isRunning)
              => \/ \E p \in pending : p.k = k /\ ActivateWrite(p)
                 \/ \E wk \in workers :
                       wk.k = k /\ wk.src = "manual" /\ WorkerStart(wk, TRUE)
        /\ \A wk \in Started :
              (wk.src = "tick" /\ store[wk.k].cancelled)
              => tickTime >= store[wk.k].nextExecutionTime
      ]_vars

\* C13: a worker whose workflow has cancelled=true stops without recording a
\* successful completion: no success update (executionCount increment,
\* nextExecutionTime overwrite) is written while cancelled is set.
C13_CancelledWorkerStops ==
    [][ \A wk \in workers : WorkerSucceed(wk) => ~store[wk.k].cancelled ]_vars

\* C14: every execution that is started eventually ends, and the state update
\* with which it ends, on success or on any failure, leaves the workflow's
\* isRunning=false.
WorkerLive(i) == \E wk \in workers : wk.id = i
C14_RunEnds ==
    /\ [][ \A wk \in workers :
              (\A x \in workers' : ~(x.k = wk.k /\ x.id = wk.id))
              => ~store'[wk.k].isRunning ]_vars
    /\ \A i \in 1..MaxRuns : WorkerLive(i) ~> ~WorkerLive(i)

\* C14 witness: a run started by the scheduler has failed inside the pipeline
\* and its exception is on the way to execute_workflow's except clause.
C14_Witness ==
    \E wk \in workers :
        wk.src = "tick" /\ wk.pc = "unwind" /\ ~store[wk.k].isRunning

\* C15: the final state update of a successful execution sets isRunning=false,
\* executionCount to the value it had just before the update plus 1, and
\* nextExecutionTime to the completion time plus the interval, and changes
\* no other field.
C15_SuccessUpdate ==
    [][ \A wk \in workers :
          WorkerSucceed(wk) =>
            store'[wk.k] =
              [store[wk.k] EXCEPT
                 !.isRunning = FALSE,
                 !.executionCount = store[wk.k].executionCount + 1,
                 !.nextExecutionTime = wk.t + wk.sched]
      ]_vars

\* C16: no step of a failing execution changes executionCount or
\* nextExecutionTime, and the step with which a failed execution ends (the
\* except clause of execute_workflow, which returns the failure result)
\* leaves isRunning=false.
C16_FailureUpdate ==
    [][ \A wk \in workers :
          /\ (WorkerStart(wk, FALSE) \/ WorkerFail(wk) \/ WorkerUnwind(wk)) =>
                store'[wk.k] = [store[wk.k] EXCEPT !.isRunning = FALSE]
          /\ WorkerStart(wk, TRUE) =>
                /\ store'[wk.k].executionCount = store[wk.k].executionCount
                /\ store'[wk.k].nextExecutionTime = store[wk.k].nextExecutionTime
      ]_vars

\* C16 witness: a run has failed after an earlier run of the workflow
\* succeeded; the record still carries the count and the nextExecutionTime of
\* the earlier run.
C16_Witness ==
    \E k \in created :
        /\ LiveWorkers(k) = {}
        /\ ~store[k].isRunning
        /\ store[k].executionCount = 1
        /\ store[k].nextExecutionTime # None
        /\ store[k].lastExecutionTime # None
        /\ store[k].lastExecutionTime >= store[k].nextExecutionTime
        /\ spawned[k[1]] = 2

\* C17: once a multi-clip execution has ended, in success or in failure, the
\* temporary directory it created no longer exists and holds no clip file.
C17_WorkspaceRemoved ==
    \A wk \in workers :
        (wk.n > 1 /\ wk.pc = "done") => (wk.dir # "exists" /\ wk.files = {})

\* C18: in a multi-clip execution in which a job has reported error or a poll
\* has timed out, _concatenate_videos is never called and no artifact is
\* written; the execution ends, after a timeout as after an error, with the
\* failure result.
C18_AbortOnJobFailure ==
    \A wk \in workers :
        (/\ wk.n > 1
         /\ \/ wk.err = "timeout"
            \/ \E j \in 1..Len(wk.jobs) : wk.jobs[j].status = "error")
        => /\ ~wk.called
           /\ wk.artifact = "none"
           /\ wk.pc = "done" => wk.result = "failure"

\* C18 witness: clip 2 of 3 has timed out after clip 1 was downloaded, and
\* the execution has ended.
C18_Witness ==
    \E wk \in workers :
        /\ wk.n = 3 /\ wk.out /\ wk.clip = 2
        /\ wk.err = "timeout" /\ wk.elapsed = VideoTimeout
        /\ Len(wk.clipPaths) = 1
        /\ wk.pc = "done"

\* C19: at most one render job of the execution is outstanding at any time,
\* and the video job of a clip after the first is submitted only when the
\* job of the clip before it has been seen completed and its artifact has
\* been downloaded to the temporary directory.
C19_ClipsSequential ==
    /\ [](\A wk \in workers : Cardinality(Outstanding(wk)) <= 1)
    /\ [][ \A wk \in workers :
              (PipeSubmit(wk, TRUE) /\ wk.clip > 1) =>
                /\ wk.jobs[Len(wk.jobs)].status = "completed"
                /\ [clip |-> wk.clip - 1, job |-> Len(wk.jobs), whole |-> TRUE]
                      \in wk.files
                /\ Len(wk.clipPaths) = wk.clip - 1
                /\ Outstanding(wk) = {} ]_vars

\* C19 witness: the job of the third clip is being polled.
C19_Witness ==
    \E wk \in workers :
        /\ wk.n = 3 /\ wk.clip = 3 /\ wk.pc = "poll"
        /\ wk.elapsed > 0
        /\ Cardinality(Outstanding(wk)) = 1

\* C20: the list _concatenate_videos is called with has numberOfClips
\* entries, and its i-th entry is the downloaded artifact of the job that was
\* submitted with the i-th prompt.
C20_ConcatOrder ==
    \A wk \in workers :
        (wk.n > 1 /\ wk.called) =>
            /\ Len(wk.input) = wk.n
            /\ \A i \in 1..Len(wk.input) :
                  /\ wk.input[i].whole
                  /\ wk.jobs[wk.input[i].job].prompt = Prompt(i)

\* C21: in image mode the execution submits one image job, prompted with the
\* concept and never a second one; a video job is submitted only after that
\* image job was seen completed and its artifact downloaded, and every video
\* job is posted that downloaded image; a successful execution has submitted
\* exactly one image job and numberOfClips video jobs.
ImageJobs(wk) == {j \in 1..Len(wk.jobs) : wk.jobs[j].kind = "image"}
VideoJobs(wk) == {j \in 1..Len(wk.jobs) : wk.jobs[j].kind = "video"}
C21_OneSeedImage ==
    \A wk \in workers :
        wk.mode = "image" =>
            /\ ImageJobs(wk) \subseteq {1}
            /\ \A j \in ImageJobs(wk) : wk.jobs[j].prompt = ConceptPrompt
            /\ \A j \in VideoJobs(wk) :
                  /\ ImageJobs(wk) = {1}
                  /\ wk.jobs[1].status = "completed"
                  /\ wk.seed = 1
                  /\ wk.jobs[j].seed = 1
            /\ wk.result = "success" =>
                  /\ ImageJobs(wk) = {1}
                  /\ Cardinality(VideoJobs(wk)) = wk.n

\* C21 witness: an image-mode execution of three clips has succeeded.
C21_Witness ==
    \E wk \in workers :
        /\ wk.mode = "image" /\ wk.n = 3 /\ wk.result = "success"
        /\ Cardinality(VideoJobs(wk)) = 3

\* C22: in image mode, when the image job could not be submitted, reported
\* error or timed out, or its result or download failed, no video job is
\* ever submitted, and the execution ends with the failure result and
\* isRunning=false.
SeedFailed(wk) ==
    /\ wk.mode = "image"
    /\ wk.seed = 0
    /\ wk.err \in {"submit", "job_error", "timeout", "download"}
C22_NoSeedNoVideo ==
    \A wk \in workers :
        SeedFailed(wk) =>
            /\ VideoJobs(wk) = {}
            /\ wk.pc \in {"except3", "except2", "except1", "done"}
            /\ wk.pc = "done" =>
                  /\ wk.result = "failure"
                  /\ ~store[wk.k].isRunning

\* C22 witness: the image job of a three-clip execution timed out after five
\* minutes and the execution has ended.
C22_Witness ==
    \E wk \in workers :
        /\ SeedFailed(wk) /\ wk.n = 3
        /\ wk.err = "timeout" /\ wk.elapsed = ImageTimeout
        /\ wk.pc = "done" /\ ~store[wk.k].isRunning

\* C23: when the route answers, the list the pipeline iterates over is the
\* parsed list cut to its first numberOfClips prompts, or padded to
\* numberOfClips with its last prompt (with the concept when it is empty);
\* and whatever the route answers, a list handed to the pipeline has
\* numberOfClips prompts, so that one video job is submitted per clip.
Corrected(raw, n) ==
    [i \in 1..n |-> IF i <= Len(raw) THEN raw[i]
                    ELSE IF raw = <<>> THEN Concept ELSE raw[Len(raw)]]
C23_CountCorrected ==
    \A c \in calls :
        (c.op = "generate_prompts" /\ c.pc = "done" /\ ~c.err) =>
            /\ Len(c.prompts) = c.n
            /\ (c.status = 200 /\ \A i \in 1..Len(c.raw) : c.raw[i] # "") =>
                  c.prompts = Corrected(c.raw, c.n)

\* C23 witness: two prompts were parsed for three clips, and three prompts
\* reach the pipeline.
C23_Witness ==
    \E c \in calls :
        /\ c.op = "generate_prompts" /\ c.pc = "done" /\ ~c.err
        /\ c.n = 3 /\ c.raw = <<"a", "b">>
        /\ c.prompts = <<"a", "b", "b">>

\* C24: every history holds at most 10 entries, newest first; a call of
\* _save_prompt_history puts its entry at the head of its workflow's list,
\* keeps the entries that were there in their order, drops the oldest one
\* exactly when there were already 10, and leaves the lists of the other
\* workflows as they were.
NewestFirst(list) ==
    \A i \in 1..Len(list), j \in 1..Len(list) :
        i < j => list[i].timestamp > list[j].timestamp
C24_HistoryCapped ==
    /\ [](\A w \in HistoryIds :
             Len(history[w]) <= HistoryCap /\ NewestFirst(history[w]))
    /\ [][ \A w \in HistoryIds :
              (\E summarised \in BOOLEAN, embedded \in BOOLEAN :
                  SavePromptHistory(w, summarised, embedded)) =>
                /\ history'[w][1].timestamp = now
                /\ Len(history'[w]) =
                      IF Len(history[w]) < HistoryCap THEN Len(history[w]) + 1
                      ELSE HistoryCap
                /\ \A i \in 2..Len(history'[w]) : history'[w][i] = history[w][i - 1]
                /\ \A v \in HistoryIds \ {w} : history'[v] = history[v] ]_vars

\* C24 witness: an eleventh run of a workflow has been recorded and the
\* first one dropped.
C24_Witness ==
    /\ Len(history["w1"]) = HistoryCap
    /\ history["w1"][HistoryCap].timestamp = 1
    /\ history["w1"][1].timestamp = HistoryCap

\* C27: whatever the summary and the embedding requests return, a call of
\* _save_prompt_history puts an entry with its timestamp, concept and prompts
\* at the head of the workflow's list; the entry has a summary exactly when
\* the summary request succeeded and an embedding exactly when both did.
C27_RecordedWithoutSummary ==
    [][ \A w \in HistoryIds, summarised \in BOOLEAN, embedded \in BOOLEAN :
          SavePromptHistory(w, summarised, embedded) =>
            /\ Len(history'[w]) >= 1
            /\ history'[w][1].timestamp = now
            /\ history'[w][1].concept = Concept
            /\ history'[w][1].prompts = <<"a", "b">>
            /\ Has(history'[w][1], "summary") <=> summarised
            /\ Has(history'[w][1], "embedding") <=> (summarised /\ embedded)
      ]_vars

\* C27 witness: the newest entry of a history was recorded while the summary
\* service was failing, after an entry recorded with summary and embedding.
C27_Witness ==
    \E w \in HistoryIds :
        /\ Len(history[w]) >= 2
        /\ ~Has(history[w][1], "summary")
        /\ Has(history[w][2], "embedding")

\* C25: with an embedding of the concept, the result of
\* _get_relevant_prompts is the prompts and summaries of the first limit
\* entries among the stored entries that have an embedding, ranked by
\* descending cosine similarity to the concept and, at equal similarity,
\* newer entry first.
Before(query, e1, e2) ==
    \/ CosineSimilarity(query, e1.embedding) > CosineSimilarity(query, e2.embedding)
    \/ /\ CosineSimilarity(query, e1.embedding) = CosineSimilarity(query, e2.embedding)
       /\ e1.timestamp > e2.timestamp
Embedded(list) == SelectSeq(list, LAMBDA e : Has(e, "embedding"))
RECURSIVE Ranked(_, _)
Ranked(list, query) ==
    IF list = <<>> THEN <<>>
    ELSE LET first == CHOOSE i \in 1..Len(list) :
                        \A j \in 1..Len(list) :
                            j # i => Before(query, list[i], list[j])
             rest == [j \in 1..(Len(list) - 1) |->
                        IF j < first THEN list[j] ELSE list[j + 1]]
         IN  <<list[first]>> \o Ranked(rest, query)
C25_TopBySimilarity ==
    \A c \in calls :
        (c.op = "retrieve" /\ c.pc = "done" /\ c.query # NoVector) =>
            LET top == Take(Ranked(Embedded(history[c.w]), c.query), c.limit)
            IN  /\ c.prompts = FlatPrompts(top)
                /\ c.summaries = Summaries(top)

\* C26: without an embedding of the concept, _get_relevant_prompts returns
\* the prompts and summaries of the limit newest entries of the history, in
\* the history's order, whether or not they carry embeddings.
C26_FallbackToRecent ==
    \A c \in calls :
        (c.op = "retrieve" /\ c.pc = "done" /\ c.query = NoVector) =>
            LET n == IF Len(history[c.w]) < c.limit THEN Len(history[c.w])
                     ELSE c.limit
                newest == [i \in 1..n |-> history[c.w][i]]
            IN  /\ c.prompts = FlatPrompts(newest)
                /\ c.summaries = Summaries(newest)
                /\ NewestFirst(newest)

\* C26 witness: the concept could not be embedded; of three stored entries,
\* the newest without embedding, the two newest were returned.
C26_Witness ==
    \E c \in calls :
        /\ c.op = "retrieve" /\ c.pc = "done" /\ c.query = NoVector
        /\ c.limit = 2 /\ Len(history[c.w]) = 3
        /\ ~Has(history[c.w][1], "embedding")
        /\ Has(history[c.w][2], "embedding")
        /\ Has(history[c.w][3], "embedding")
        /\ c.prompts = <<4, 5, 2, 3>>

\* C28: a get of an absent record writes the default record and returns it,
\* and changes no record that exists; an update returns its record with the
\* fields of the patch set to the patch's values and every other field as it
\* was, and leaves the records of all other keys as they were.
C28_StoreContract ==
    [][ \A c \in calls' :
          /\ c.op = "get" =>
                /\ c.k \in created'
                /\ c.k \notin created => c.returned = DefaultState
                /\ store'[c.k] = c.returned
                /\ \A k \in created : store'[k] = store[k]
          /\ c.op = "update" =>
                /\ c.returned = store'[c.k]
                /\ \A f \in DOMAIN c.patch : store'[c.k][f] = c.patch[f]
                /\ \A f \in DOMAIN DefaultState \ DOMAIN c.patch :
                      store'[c.k][f] = store[c.k][f]
                /\ \A k \in Keys \ {c.k} : store'[k] = store[k] ]_vars

\* C29: once the calls to different workflows have all returned, the state
\* record of every patched workflow carries the values of its patch, and the
\* history of every workflow whose run was recorded holds that run's entry.
C29_NoLostUpdate ==
    (\A c \in calls : c.pc = "done") =>
        \A c \in calls :
            /\ c.op = "patch" =>
                  \A f \in DOMAIN c.patch : stateFile[c.w][f] = c.patch[f]
            /\ c.op = "save" =>
                  /\ Len(history[c.w]) = 1
                  /\ history[c.w][1].prompts = c.patch

\* C30: whatever calls of start and stop were made, no two threads are in a
\* pass of the scheduler at once, and while the scheduler is running at most
\* one thread of _run is alive.
C30_OneLoop ==
    /\ Cardinality(Scanning) <= 1
    /\ running => Cardinality(Alive) <= 1

\* C35: an update addressed to a key without a stored record does not raise:
\* it leaves the default record with the patch applied and returns it.
C35_UpdateInitializes ==
    [][ \A c \in calls' :
          (c.op = "update" /\ c.k \notin created) =>
              /\ c.returned # KeyError
              /\ c.k \in created'
              /\ store'[c.k] = Merge(DefaultState, c.patch)
              /\ c.returned = store'[c.k] ]_vars

\* C38: when a pass of the scheduler checks the workflow W that get_workflows
\* listed for owner A, its decision is the one the record of (A, W) gives
\* and no other key gets a record by the read; when it dispatches, the only
\* record that changes is that of (A, W), which gets isRunning = true.
TickStep == tickList' # tickList \/ schedPc' # schedPc
C38_OwnerIsolation ==
    [][ /\ (schedPc = "check" /\ TickStep) =>
              LET k == Head(tickList).k
              IN  /\ created' \subseteq created \cup {k}
                  /\ (schedPc' = "dispatch") <=>
                        (~Skips(store[k]) /\ ShouldExecute(store[k], tickTime))
                  /\ schedPc' = "dispatch" => tickRead' = store[k]
        /\ (schedPc = "dispatch" /\ TickStep) =>
              LET k == Head(tickList).k
              IN  /\ \A k2 \in Keys \ {k} : store'[k2] = store[k2]
                  /\ created' \subseteq created \cup {k}
                  /\ Started # {} => store'[k].isRunning ]_vars

\* C32: POST /workflows/{id}/execute that reads isRunning = true starts
\* nothing; for a known workflow that it reads as not running it goes on to
\* start exactly one worker for that workflow, whatever isActive and
\* nextExecutionTime are; neither the handler nor the run it started changes
\* isActive.
C32_ExecuteNow ==
    [][ /\ \A k \in Keys :
              ExecuteCheck(k) =>
                  /\ store' = store /\ workers' = workers
                  /\ store[k].isRunning => pending' = pending
                  /\ (k \in cacheWf /\ ~store[k].isRunning) =>
                        pending' \ pending = {Request("execute", k)}
        /\ \A p \in pending :
              ExecuteSpawn(p) =>
                  /\ store' = store
                  /\ Cardinality(workers' \ workers) = 1
                  /\ \A wk \in workers' \ workers :
                        wk.k = p.k /\ wk.src = "manual"
        /\ \A wk \in workers :
              (/\ wk.src = "manual"
               /\ \/ \E valid \in BOOLEAN : WorkerStart(wk, valid)
                  \/ WorkerRead(wk) \/ WorkerSucceed(wk)
                  \/ WorkerFail(wk) \/ WorkerUnwind(wk)) =>
                  store'[wk.k].isActive = store[wk.k].isActive ]_vars

\* C32 witness: a worker started by execute is live for a workflow that is
\* not active and whose nextExecutionTime, set by an earlier run, is still
\* ahead.
C32_Witness ==
    \E wk \in workers :
        /\ wk.src = "manual"
        /\ ~store[wk.k].isActive
        /\ store[wk.k].nextExecutionTime # None
        /\ store[wk.k].nextExecutionTime > now

\* C40: executionCount of a workflow never decreases, goes up by exactly one
\* with every execution of the workflow that completes successfully, and is
\* changed by nothing else; so it equals the number of successful executions.
C40_CountsSuccesses ==
    [][ \A k \in Keys :
          /\ store'[k].executionCount >= store[k].executionCount
          /\ \A wk \in workers :
                (wk.k = k /\ WorkerSucceed(wk)) =>
                    store'[k].executionCount = store[k].executionCount + 1
          /\ (\A wk \in workers : ~(wk.k = k /\ WorkerSucceed(wk))) =>
                store'[k].executionCount = store[k].executionCount ]_vars

\* C36: a cancelled workflow is not out of scheduling for good: a pass that
\* checks an active, idle workflow whose nextExecutionTime has passed
\* dispatches it although it was cancelled, or else an activate would make
\* it schedulable again (the record left by an activation whose run has
\* ended is not skipped by the pass).
AfterActivation(st) == Merge(Merge(st, ActivateUpdate), FailureUpdate)
C36_CancelNotForGood ==
    [][ (schedPc = "check" /\ TickStep) =>
            LET st == store[Head(tickList).k]
            IN  (st.isActive /\ ~st.isRunning /\ ShouldExecute(st, tickTime)) =>
                    \/ schedPc' = "dispatch"
                    \/ ~Skips(AfterActivation(st)) ]_vars

\* C37: an active, idle, non-cancelled workflow is dispatched again by the
\* scheduler without a new activate: a pass that checks it dispatches it
\* when its nextExecutionTime has passed, and also when nextExecutionTime is
\* unset, as the failed first run of an activation leaves it.
C37_RetriedAfterFailure ==
    [][ (schedPc = "check" /\ TickStep) =>
            LET st == store[Head(tickList).k]
            IN  (/\ st.isActive /\ ~st.isRunning /\ ~st.cancelled
                 /\ \/ st.nextExecutionTime = None
                    \/ tickTime >= st.nextExecutionTime) =>
                    schedPc' = "dispatch" ]_vars

\* C39: _poll_for_completion ends: it returns at the first poll that reports
\* completed, raises at the first that reports error, goes on polling after
\* any other answer, a failed request included, as long as the timeout has
\* not elapsed, and raises the timeout at the first test of the elapsed time
\* that finds it at or past the timeout.
PollEnds == \A c \in calls : c.pc # "loop"
C39_PollTerminates ==
    /\ <>PollEnds
    /\ [][ \A c \in calls, answer \in Answers, took \in {0, RequestTimeout} :
             Poll(c, answer, took) =>
               \E d \in calls' :
                 /\ d.pc = "timeout" <=> c.elapsed >= c.timeout
                 /\ d.pc = "returned" <=>
                      (c.elapsed < c.timeout /\ answer = "completed")
                 /\ d.pc = "raised" <=>
                      (c.elapsed < c.timeout /\ answer = "error")
                 /\ d.pc = "loop" => d.elapsed >= c.elapsed + PollInterval ]_vars

\* C39 witness: a call that met a failed status request and polls without
\* result up to the video timeout has raised the timeout.
C39_Witness ==
    \E c \in calls :
        /\ c.pc = "timeout" /\ c.failed
        /\ c.timeout = VideoTimeout /\ c.elapsed >= VideoTimeout

\* C31 (as stated): the caller's template is as it was given; the job has
\* the template's nodes with their class types and input keys; for every
\* setting passed as None the template values it stands for are in the job
\* as they were in the template; and when the template has no prompt node
\* and every setting is None, the job handed to queue_prompt equals the
\* template.
SettingKeys(name) ==
    IF name = "cfg_scale" THEN {"cfg"}
    ELSE IF name = "length" THEN {FrameParams[n] : n \in 1..Len(FrameParams)}
    ELSE IF name = "negative_prompt" THEN {}
    ELSE {name}
Unfilled(c) ==
    /\ c.template = c.given
    /\ Len(c.job.graph) = Len(c.given.graph)
    /\ \A i \in 1..Len(c.given.graph) :
          LET old == c.given.graph[i]
              new == c.job.graph[i]
          IN  /\ DOMAIN new = DOMAIN old
              /\ new.class_type = old.class_type
              /\ HasInputs(old) =>
                    /\ DOMAIN new.inputs = DOMAIN old.inputs
                    /\ \A name \in SettingNames :
                          c.settings[name] = None =>
                              \A key \in SettingKeys(name) \cap DOMAIN old.inputs :
                                  new.inputs[key] = old.inputs[key]
    /\ (c.settings.negative_prompt = None
        /\ Cardinality(ClipNodes(c.given.graph)) > 1) =>
          c.job.graph[Nth(ClipNodes(c.given.graph), 2)]
              = c.given.graph[Nth(ClipNodes(c.given.graph), 2)]
NothingToFill(c) ==
    /\ ClipNodes(c.given.graph) = {}
    /\ \A name \in SettingNames : c.settings[name] = None
C31_JobEqualsTemplate ==
    \A c \in calls :
        (c.op = "fill" /\ c.pc = "done") =>
            /\ Unfilled(c)
            /\ NothingToFill(c) => c.job = c.given

\* C31 (amended): as above, but what equals the job when nothing is to be
\* filled is the node graph of the template: the template itself, or the
\* value of its 'workflow' or 'prompt' key when it has one.
C31_JobEqualsGraph ==
    \A c \in calls :
        (c.op = "fill" /\ c.pc = "done") =>
            /\ Unfilled(c)
            /\ NothingToFill(c) => c.job.graph = c.given.graph

\* C31 witness: a template that holds its graph under 'workflow', with a
\* prompt node and a sampler, was filled with a prompt and steps only; the
\* job carries them and the caller's template does not.
C31_Witness ==
    \E c \in calls :
        /\ c.op = "fill" /\ c.pc = "done"
        /\ c.given.format = "workflow"
        /\ c.settings = SettingsOf({"steps"})
        /\ Len(c.given.graph) = 2
        /\ c.job.graph[1].class_type = "CLIPTextEncode"
        /\ c.job.graph[1].inputs.text = PositivePrompt
        /\ c.job.graph[2].class_type = "KSampler"
        /\ c.job.graph[2].inputs = [steps |-> 9, cfg |-> 0, seed |-> 0]
        /\ c.template.graph[1].inputs.text = 0

\* C33: a submit that failed because the backend could not be reached
\* (connection refused, name not resolved, connect or read timeout) has no
\* job id and isComfyUIOffline = true; one that failed otherwise (the
\* backend rejected the job, or its reply was unusable) has no job id and
\* isComfyUIOffline = false; one that succeeded has a job id and
\* isComfyUIOffline = false.
C33_OfflineClassified ==
    \A c \in calls :
        (c.op = "submit" /\ c.pc = "done") =>
            /\ c.success <=> c.outcome = "queued"
            /\ c.success <=> c.prompt_id # None
            /\ c.isComfyUIOffline <=> c.outcome \in Unreachable

\* C34: a customer.subscription.deleted webhook for an existing paid
\* subscription leaves that subscription with status canceled and its user
\* with an active subscription on the FREE plan, which the webhook adds; a
\* webhook whose signature or payload does not verify is answered 400 and
\* changes no subscription.
C34_DeletedRevertsToFree ==
    [][LET i == FirstSubscription(subscriptions, reply'.id)
       IN  /\ (reply'.request = "customer.subscription.deleted"
               /\ reply'.signature = "valid" /\ i # 0) =>
                 /\ subscriptions[i].plan # "FREE"
                 /\ reply'.status = 200
                 /\ subscriptions'[i].status = "canceled"
                 /\ Len(subscriptions') = Len(subscriptions) + 1
                 /\ subscriptions'[Len(subscriptions')] =
                       Subscription(subscriptions[i].user_id, "FREE", "none",
                                    "active")
           /\ reply'.signature \in Signatures \ {"valid"} =>
                 /\ subscriptions' = subscriptions
                 /\ reply'.status = 400]_vars

C34_Witness ==
    /\ reply.request = "customer.subscription.deleted"
    /\ reply.signature = "valid" /\ reply.status = 200
    /\ \E i \in DOMAIN subscriptions :
          /\ subscriptions[i].stripe_subscription_id = reply.id
          /\ subscriptions[i].plan = "PRO"
          /\ subscriptions[i].status = "canceled"
          /\ subscriptions[Len(subscriptions)] =
                Subscription(subscriptions[i].user_id, "FREE", "none", "active")
====
